---- MODULE Spec2Model ----
(***************************************************************************)
(* Web-search decision engine of servers/fastapi/services/                 *)
(* web_search_analysis: the typed result model (models.py), the LLM        *)
(* analyzer with its response parser, keyword fallback and batch runner    *)
(* (llm_analyzer.py), the grounding gate of the enhanced LLM client        *)
(* (enhanced_llm_client.py) and the batch endpoint (endpoints.py).         *)
(*                                                                         *)
(* Conventions                                                             *)
(*  - A Python str is a sequence of characters.  An ASCII character is the *)
(*    one-character TLA+ string; a Cyrillic character is named by its code *)
(*    point ("U+0442").  Chars("abc") = <<"a", "b", "c">>.                 *)
(*  - A float confidence is counted in tenths: 0.6 is 6, 1.0 is 10.        *)
(*  - Optional[T] is a sequence of length 0 (None / key absent) or 1.      *)
(*  - A call either returns or raises: Return(v) / Raise(e).               *)
(***************************************************************************)
EXTENDS Integers, Sequences, FiniteSets, TLC

VARIABLES
    pc,         \* position of the running operation
    request,    \* QueryAnalysisRequest handed to analyze_query / _fallback_analysis
    response,   \* mapping handed to _parse_llm_response
    kwargs,     \* keyword arguments handed to the WebSearchAnalysis constructor;
                \* in SpecWrapper the *_with_smart_web_search call under way
    llm,        \* the generate_structured call of the running analyze_query
    result,     \* what the operation returned or raised
    requests,   \* batch_analyze: the input list
    idx,        \* batch_analyze: 1-based position of the for loop
    results,    \* batch_analyze: the local list `results`
    outcomes,   \* what the call made for each item or request so far returned or raised
    calls,      \* the calls issued so far, in issue order
    inflight,   \* number of generate_structured calls issued and not yet ended
    gate,       \* should_enable_web_grounding: capability flag and arguments
    http        \* what the endpoint answered

vars == <<pc, request, response, kwargs, llm, result, requests, idx, results, outcomes, calls, inflight, gate, http>>

-----------------------------------------------------------------------------
(* Bounds of the explored inputs *)

MaxWords == 2       \* words per query
MaxTriggers == 2    \* entries of a response's `triggers` list
MaxExcess == 1      \* tenths by which a confidence may leave [0.0, 1.0]
MaxBatch == 2       \* requests per batch
MaxCalls == 2       \* successive calls on one analyzer
MaxTools == 2       \* tools a caller hands to a wrapper

-----------------------------------------------------------------------------
(* Generic values *)

None == <<>>
Some(v) == <<v>>
Return(v) == [kind |-> "return", value |-> v]
Raise(e) == [kind |-> "raise", error |-> e]
NoResult == [kind |-> "none"]

Range(seq) == {seq[i] : i \in DOMAIN seq}

\* Sequences over S of length 0..n
SeqUpTo(S, n) == UNION {[1..k -> S] : k \in 0..n}

-----------------------------------------------------------------------------
(* Python str *)

Chars(s) == [i \in 1..Len(s) |-> SubSeq(s, i, i)]

AsciiUpper == Chars("ABCDEFGHIJKLMNOPQRSTUVWXYZ")
AsciiLower == Chars("abcdefghijklmnopqrstuvwxyz")

\* U+0410..U+042F and U+0430..U+044F
CyrillicUpper ==
    <<"U+0410", "U+0411", "U+0412", "U+0413", "U+0414", "U+0415", "U+0416", "U+0417",
      "U+0418", "U+0419", "U+041A", "U+041B", "U+041C", "U+041D", "U+041E", "U+041F",
      "U+0420", "U+0421", "U+0422", "U+0423", "U+0424", "U+0425", "U+0426", "U+0427",
      "U+0428", "U+0429", "U+042A", "U+042B", "U+042C", "U+042D", "U+042E", "U+042F">>
CyrillicLower ==
    <<"U+0430", "U+0431", "U+0432", "U+0433", "U+0434", "U+0435", "U+0436", "U+0437",
      "U+0438", "U+0439", "U+043A", "U+043B", "U+043C", "U+043D", "U+043E", "U+043F",
      "U+0440", "U+0441", "U+0442", "U+0443", "U+0444", "U+0445", "U+0446", "U+0447",
      "U+0448", "U+0449", "U+044A", "U+044B", "U+044C", "U+044D", "U+044E", "U+044F">>

\* the lower-case mapping of one character
LowerChar(c) ==
    IF \E i \in DOMAIN AsciiUpper : AsciiUpper[i] = c
    THEN AsciiLower[CHOOSE i \in DOMAIN AsciiUpper : AsciiUpper[i] = c]
    ELSE IF \E i \in DOMAIN CyrillicUpper : CyrillicUpper[i] = c
    THEN CyrillicLower[CHOOSE i \in DOMAIN CyrillicUpper : CyrillicUpper[i] = c]
    ELSE c

\* str.lower()
Lower(s) == [i \in 1..Len(s) |-> LowerChar(s[i])]

\* `k in s` for two strings: k occurs in s as a contiguous substring
Contains(s, k) ==
    \E i \in 1..(Len(s) - Len(k) + 1) : SubSeq(s, i, i + Len(k) - 1) = k

\* s.startswith(p)
StartsWith(s, p) == Len(p) <= Len(s) /\ SubSeq(s, 1, Len(p)) = p

\* " ".join(words)
RECURSIVE Join(_)
Join(words) ==
    IF Len(words) = 0 THEN <<>>
    ELSE IF Len(words) = 1 THEN words[1]
    ELSE words[1] \o <<" ">> \o Join(Tail(words))

-----------------------------------------------------------------------------
(* models.py *)

\* WebSearchTrigger: member name |-> value, in definition order
TriggerNames ==
    <<"TEMPORAL", "NEWS", "STATISTICS", "CURRENT_EVENTS", "PRICES",
      "RESEARCH", "TECHNOLOGY", "FINANCE", "GENERAL_KNOWLEDGE">>
TriggerValues ==
    <<"temporal", "news", "statistics", "current_events", "prices",
      "research", "technology", "finance", "general_knowledge">>

WebSearchTriggerMembers == Range(TriggerNames)

\* WebSearchTrigger(value): the member with that value, or ValueError
WebSearchTrigger(value) ==
    IF \E i \in DOMAIN TriggerValues : TriggerValues[i] = value
    THEN Return(TriggerNames[CHOOSE i \in DOMAIN TriggerValues : TriggerValues[i] = value])
    ELSE Raise("ValueError")

\* Field(ge=0.0, le=1.0), in tenths
ConfidenceMin == 0
ConfidenceMax == 10

ConfidenceValid_Strict(confidence) ==
    ConfidenceMin < confidence /\ confidence < ConfidenceMax

ConfidenceValid(confidence) ==
    ConfidenceMin <= confidence /\ confidence <= ConfidenceMax

\* WebSearchAnalysis(...): construction validates the confidence bounds
WebSearchAnalysis_NoValidation(needs_web_search, confidence, triggers, reasoning, suggested_queries, alternative_approach) ==
    Return([needs_web_search |-> needs_web_search,
            confidence |-> confidence,
            triggers |-> triggers,
            reasoning |-> reasoning,
            suggested_queries |-> suggested_queries,
            alternative_approach |-> alternative_approach])

WebSearchAnalysis(needs_web_search, confidence, triggers, reasoning, suggested_queries, alternative_approach) ==
    IF ConfidenceValid(confidence)
    THEN Return([needs_web_search |-> needs_web_search,
                 confidence |-> confidence,
                 triggers |-> triggers,
                 reasoning |-> reasoning,
                 suggested_queries |-> suggested_queries,
                 alternative_approach |-> alternative_approach])
    ELSE Raise("ValidationError")

-----------------------------------------------------------------------------
(* Inputs: queries and requests *)

\* Words the explored queries are made of.  They cover: a keyword in mixed
\* case, a keyword in lower case, a keyword in upper case, two keywords of
\* different lists inside one longer word, no keyword, a Cyrillic keyword
\* with a capital first letter, a Cyrillic word only the client's list knows,
\* and a Cyrillic inflection that holds no keyword.
Words ==
    { Chars("Latest"), Chars("news"), Chars("DATA"), Chars("Report2025"), Chars("what"),
      \* Статистика
      <<"U+0421", "U+0442", "U+0430", "U+0442", "U+0438", "U+0441", "U+0442", "U+0438", "U+043A", "U+0430">>,
      \* сейчас
      <<"U+0441", "U+0435", "U+0439", "U+0447", "U+0430", "U+0441">>,
      \* Текущая
      <<"U+0422", "U+0435", "U+043A", "U+0443", "U+0449", "U+0430", "U+044F">> }

QueriesOf(n) == {Join(ws) : ws \in SeqUpTo(Words, n)}
Queries == QueriesOf(MaxWords)

\* presentation_context: Optional[Dict]; each key of the dict is optional
Context(topic, previous_slides, domain) ==
    [topic |-> topic, previous_slides |-> previous_slides, domain |-> domain]
Contexts ==
    { None,
      Some(Context(None, None, None)),
      Some(Context(Some(Chars("AI")), Some(<<Chars("Intro")>>), Some(Chars("tech")))) }

Sensitivities == {"low", "medium", "high"}
Languages == {"en", "ru"}

QueryAnalysisRequest(user_query, presentation_context, sensitivity, language) ==
    [user_query |-> user_query, presentation_context |-> presentation_context,
     sensitivity |-> sensitivity, language |-> language]

Requests ==
    {QueryAnalysisRequest(q, c, s, l) :
        q \in Queries, c \in Contexts, s \in Sensitivities, l \in Languages}

-----------------------------------------------------------------------------
(* llm_analyzer.py: _fallback_analysis *)

temporal_keywords ==
    << Chars("current"), Chars("latest"), Chars("recent"), Chars("today"),
       Chars("now"), Chars("2024"), Chars("2025"),
       \* текущий
       <<"U+0442", "U+0435", "U+043A", "U+0443", "U+0449", "U+0438", "U+0439">>,
       \* последний
       <<"U+043F", "U+043E", "U+0441", "U+043B", "U+0435", "U+0434", "U+043D", "U+0438", "U+0439">>,
       \* недавно
       <<"U+043D", "U+0435", "U+0434", "U+0430", "U+0432", "U+043D", "U+043E">> >>

news_keywords ==
    << Chars("news"), Chars("events"), Chars("announcements"), Chars("developments"),
       \* новости
       <<"U+043D", "U+043E", "U+0432", "U+043E", "U+0441", "U+0442", "U+0438">>,
       \* события
       <<"U+0441", "U+043E", "U+0431", "U+044B", "U+0442", "U+0438", "U+044F">>,
       \* объявления
       <<"U+043E", "U+0431", "U+044A", "U+044F", "U+0432", "U+043B", "U+0435", "U+043D", "U+0438", "U+044F">> >>

stats_keywords ==
    << Chars("statistics"), Chars("data"), Chars("figures"), Chars("analysis"),
       Chars("report"),
       \* статистика
       <<"U+0441", "U+0442", "U+0430", "U+0442", "U+0438", "U+0441", "U+0442", "U+0438", "U+043A", "U+0430">>,
       \* данные
       <<"U+0434", "U+0430", "U+043D", "U+043D", "U+044B", "U+0435">>,
       \* анализ
       <<"U+0430", "U+043D", "U+0430", "U+043B", "U+0438", "U+0437">> >>

\* any(keyword in query for keyword in keywords)
AnyKeyword(query, keywords) ==
    \E i \in DOMAIN keywords : Contains(query, keywords[i])

\* query = request.user_query.lower()
FallbackQuery_NoLower(req) == req.user_query

FallbackQuery(req) == Lower(req.user_query)

\* needs_search = has_temporal or has_news or has_stats
FallbackNeedsSearch_NoStats(has_temporal, has_news, has_stats) ==
    has_temporal \/ has_news

FallbackNeedsSearch(has_temporal, has_news, has_stats) ==
    has_temporal \/ has_news \/ has_stats

\* confidence = 0.6 if needs_search else 0.4
FallbackConfidence(needs_search) == IF needs_search THEN 6 ELSE 4

\* the three `if has_x: triggers.append(...)`
FallbackTriggers_NewsFirst(has_temporal, has_news, has_stats) ==
    (IF has_news THEN <<"NEWS">> ELSE <<>>)
    \o (IF has_temporal THEN <<"TEMPORAL">> ELSE <<>>)
    \o (IF has_stats THEN <<"STATISTICS">> ELSE <<>>)

FallbackTriggers(has_temporal, has_news, has_stats) ==
    (IF has_temporal THEN <<"TEMPORAL">> ELSE <<>>)
    \o (IF has_news THEN <<"NEWS">> ELSE <<>>)
    \o (IF has_stats THEN <<"STATISTICS">> ELSE <<>>)

FallbackReasoning == Chars("Fallback analysis based on simple keyword matching")

\* suggested_queries=[request.user_query] if needs_search else []
FallbackSuggestedQueries_Lowered(req, needs_search) ==
    IF needs_search THEN <<Lower(req.user_query)>> ELSE <<>>

FallbackSuggestedQueries(req, needs_search) ==
    IF needs_search THEN <<req.user_query>> ELSE <<>>

\* the rule reads request.user_query and nothing else of the request
_fallback_analysis_BySensitivity(req) ==
    LET query == FallbackQuery(req)
        has_temporal == AnyKeyword(query, temporal_keywords)
        has_news == AnyKeyword(query, news_keywords)
        has_stats == AnyKeyword(query, stats_keywords)
        needs_search == FallbackNeedsSearch(has_temporal, has_news, has_stats) /\ req.sensitivity # "low"
    IN  WebSearchAnalysis(needs_search,
                          FallbackConfidence(needs_search),
                          FallbackTriggers(has_temporal, has_news, has_stats),
                          FallbackReasoning,
                          FallbackSuggestedQueries(req, needs_search),
                          None)

_fallback_analysis(req) ==
    LET query == FallbackQuery(req)
        has_temporal == AnyKeyword(query, temporal_keywords)
        has_news == AnyKeyword(query, news_keywords)
        has_stats == AnyKeyword(query, stats_keywords)
        needs_search == FallbackNeedsSearch(has_temporal, has_news, has_stats)
    IN  WebSearchAnalysis(needs_search,
                          FallbackConfidence(needs_search),
                          FallbackTriggers(has_temporal, has_news, has_stats),
                          FallbackReasoning,
                          FallbackSuggestedQueries(req, needs_search),
                          None)

-----------------------------------------------------------------------------
(* Specification SpecFallback: _fallback_analysis applied to every request *)

NoRequest == QueryAnalysisRequest(<<>>, None, "medium", "en")
NoResponse == [present |-> {}]
NoKwargs == [confidence |-> 0]
NoLLM == [kind |-> "none"]
NoGate == [enabled |-> FALSE, user_query |-> <<>>, presentation_context |-> None]

InitFallback ==
    /\ pc = "start"
    /\ request \in Requests
    /\ result = NoResult
    /\ response = NoResponse
    /\ kwargs = NoKwargs
    /\ llm = NoLLM
    /\ requests = <<>>
    /\ idx = 0
    /\ results = <<>>
    /\ outcomes = <<>>
    /\ calls = <<>>
    /\ inflight = 0
    /\ gate = NoGate
    /\ http = NoResult

FallbackAnalysisCall ==
    /\ pc = "start"
    /\ result' = _fallback_analysis(request)
    /\ pc' = "done"
    /\ UNCHANGED <<request, response, kwargs, llm, requests, idx, results, outcomes, calls, inflight, gate, http>>

NextFallback == FallbackAnalysisCall

SpecFallback == InitFallback /\ [][NextFallback]_vars

-----------------------------------------------------------------------------
(* Specification SpecRepeat: _fallback_analysis called several times in a row
   on one analyzer, each time with any request *)

RepeatQueries == {Chars("what"), Chars("Latest news")}

RepeatRequests ==
    {QueryAnalysisRequest(q, c, s, l) :
        q \in RepeatQueries, c \in Contexts, s \in Sensitivities, l \in Languages}

\* an invocation of _fallback_analysis
FallbackCall(req) == [op |-> "_fallback_analysis", request |-> req]

InitRepeat ==
    /\ pc = "ready"
    /\ request = NoRequest
    /\ result = NoResult
    /\ response = NoResponse
    /\ kwargs = NoKwargs
    /\ llm = NoLLM
    /\ requests = <<>>
    /\ idx = 0
    /\ results = <<>>
    /\ outcomes = <<>>
    /\ calls = <<>>
    /\ inflight = 0
    /\ gate = NoGate
    /\ http = NoResult

FallbackAnalysisAgain(req) ==
    /\ pc = "ready"
    /\ Len(outcomes) < MaxCalls
    /\ request' = req
    /\ result' = _fallback_analysis(req)
    /\ outcomes' = Append(outcomes, [request |-> req, analysis |-> result'])
    /\ calls' = Append(calls, FallbackCall(req))
    /\ UNCHANGED <<pc, response, kwargs, llm, requests, idx, results, inflight, gate, http>>

NextRepeat == \E req \in RepeatRequests : FallbackAnalysisAgain(req)

SpecRepeat == InitRepeat /\ [][NextRepeat]_vars

-----------------------------------------------------------------------------
(* Properties of _fallback_analysis, checked under SpecFallback *)

\* some keyword of the list is spelled out, character by character, somewhere
\* in the lower-cased text
KeywordHit(lowered, keywords) ==
    \E k \in Range(keywords) :
        \E i \in 0..(Len(lowered) - Len(k)) :
            \A j \in 1..Len(k) : lowered[i + j] = k[j]

Matched(text) ==
    LET lowered == Lower(text)
    IN  [TEMPORAL |-> KeywordHit(lowered, temporal_keywords),
         NEWS |-> KeywordHit(lowered, news_keywords),
         STATISTICS |-> KeywordHit(lowered, stats_keywords)]

FallbackDone == pc = "done" /\ result.kind = "return"

\* C2: for every query the fallback result's needs_web_search is the OR of the
\* three keyword tests on the lower-cased query, and its confidence is 0.6 when
\* needs_web_search is true and 0.4 when it is false, never another value.
C2_FallbackDecision ==
    pc = "done" =>
        /\ result.kind = "return"
        /\ LET m == Matched(request.user_query)
           IN  result.value.needs_web_search = (m.TEMPORAL \/ m.NEWS \/ m.STATISTICS)
        /\ result.value.needs_web_search => result.value.confidence = 6
        /\ ~result.value.needs_web_search => result.value.confidence = 4
        /\ result.value.confidence \in {4, 6}

\* an upper-case query that hits the statistics list only
C2_Witness ==
    /\ FallbackDone
    /\ request.user_query = Chars("DATA")
    /\ result.value.needs_web_search
    /\ result.value.confidence = 6

\* C3: the fallback result's triggers are exactly the matched categories among
\* temporal, news, statistics, each at most once, in that fixed order; the list
\* is empty iff needs_web_search is false and holds no other taxonomy value.
C3_FallbackTriggers ==
    pc = "done" =>
        /\ result.kind = "return"
        /\ LET m == Matched(request.user_query)
           IN  result.value.triggers =
                  SelectSeq(<<"TEMPORAL", "NEWS", "STATISTICS">>, LAMBDA t : m[t])
        /\ \A i, j \in DOMAIN result.value.triggers :
              result.value.triggers[i] = result.value.triggers[j] => i = j
        /\ (result.value.triggers = <<>>) = ~result.value.needs_web_search
        /\ Range(result.value.triggers) \subseteq {"TEMPORAL", "NEWS", "STATISTICS"}

\* the news word comes first in the text, the temporal trigger first in the list
C3_Witness ==
    /\ FallbackDone
    /\ request.user_query = Chars("news Report2025")
    /\ result.value.triggers = <<"TEMPORAL", "NEWS", "STATISTICS">>

\* C4: the fallback result's suggested_queries is the one-element list of the
\* original query (not lower-cased) when needs_web_search is true and empty
\* otherwise; alternative_approach is absent; reasoning is the fixed literal
\* that begins with 'Fallback analysis'.
C4_FallbackOtherFields ==
    pc = "done" =>
        /\ result.kind = "return"
        /\ result.value.suggested_queries =
              (IF result.value.needs_web_search THEN <<request.user_query>> ELSE <<>>)
        /\ result.value.alternative_approach = None
        /\ result.value.reasoning =
              Chars("Fallback analysis based on simple keyword matching")
        /\ StartsWith(result.value.reasoning, Chars("Fallback analysis"))

\* a matching query that differs from its lower-cased form
C4_Witness ==
    /\ FallbackDone
    /\ request.user_query = Chars("Latest news")
    /\ Lower(request.user_query) # request.user_query
    /\ result.value.suggested_queries = <<Chars("Latest news")>>

\* the two results agree on the five fields the rule computes
SameDecision(a, b) ==
    /\ a.needs_web_search = b.needs_web_search
    /\ a.confidence = b.confidence
    /\ a.triggers = b.triggers
    /\ a.reasoning = b.reasoning
    /\ a.suggested_queries = b.suggested_queries

\* C19: the fallback rule is deterministic and depends only on the query text:
\* two requests with the same user_query yield identical needs_web_search,
\* confidence, triggers, reasoning and suggested_queries, whatever their
\* context, sensitivity and language and whatever calls were made before.
C19_FallbackDependsOnQueryOnly ==
    \A i \in DOMAIN outcomes : \A j \in DOMAIN outcomes :
        outcomes[i].request.user_query = outcomes[j].request.user_query =>
            /\ outcomes[i].analysis.kind = "return"
            /\ outcomes[j].analysis.kind = "return"
            /\ SameDecision(outcomes[i].analysis.value, outcomes[j].analysis.value)

\* the same query asked twice, with another context, sensitivity and language
C19_Witness ==
    /\ Len(outcomes) >= 2
    /\ outcomes[1].request.user_query = Chars("Latest news")
    /\ outcomes[2].request.user_query = Chars("Latest news")
    /\ outcomes[1].request.presentation_context # outcomes[2].request.presentation_context
    /\ outcomes[1].request.sensitivity = "low"
    /\ outcomes[2].request.sensitivity = "high"
    /\ outcomes[1].request.language # outcomes[2].request.language
    /\ outcomes[2].analysis.value.needs_web_search
    /\ outcomes[1].analysis = outcomes[2].analysis

-----------------------------------------------------------------------------
(* Specification SpecModel: the WebSearchAnalysis constructor applied to
   keyword arguments of the declared types *)

\* confidences on both sides of, and inside, [0.0, 1.0]
ConfidenceInputs == (ConfidenceMin - MaxExcess)..(ConfidenceMax + MaxExcess)

ConstructorInputs ==
    [needs_web_search : BOOLEAN,
     confidence : ConfidenceInputs,
     triggers : SeqUpTo({"TEMPORAL", "TECHNOLOGY"}, 1),
     reasoning : {Chars(""), Chars("test")},
     suggested_queries : {<<>>, <<Chars("AI trends 2024")>>},
     alternative_approach : {None, Some(Chars("Use general AI knowledge"))}]

InitModel ==
    /\ pc = "start"
    /\ kwargs \in ConstructorInputs
    /\ result = NoResult
    /\ request = NoRequest
    /\ response = NoResponse
    /\ llm = NoLLM
    /\ requests = <<>>
    /\ idx = 0
    /\ results = <<>>
    /\ outcomes = <<>>
    /\ calls = <<>>
    /\ inflight = 0
    /\ gate = NoGate
    /\ http = NoResult

Construct ==
    /\ pc = "start"
    /\ result' = WebSearchAnalysis(kwargs.needs_web_search, kwargs.confidence, kwargs.triggers, kwargs.reasoning, kwargs.suggested_queries, kwargs.alternative_approach)
    /\ pc' = "done"
    /\ UNCHANGED <<request, response, kwargs, llm, requests, idx, results, outcomes, calls, inflight, gate, http>>

NextModel == Construct

SpecModel == InitModel /\ [][NextModel]_vars

\* C8: constructing a WebSearchAnalysis succeeds for every confidence c with
\* 0.0 <= c <= 1.0, both bounds included, and fails with a validation error for
\* every confidence below 0.0 or above 1.0; no constructed result has a
\* confidence outside [0.0, 1.0].
C8_ConfidenceValidation ==
    pc = "done" =>
        /\ (0 <= kwargs.confidence /\ kwargs.confidence <= 10) =>
              /\ result.kind = "return"
              /\ result.value.confidence = kwargs.confidence
        /\ (kwargs.confidence < 0 \/ kwargs.confidence > 10) =>
              /\ result.kind = "raise"
              /\ result.error = "ValidationError"
        /\ result.kind = "return" =>
              (0 <= result.value.confidence /\ result.value.confidence <= 10)

\* the upper bound 1.0 itself is accepted
C8_Witness ==
    /\ pc = "done"
    /\ kwargs.confidence = 10
    /\ result.kind = "return"
    /\ result.value.confidence = 10

-----------------------------------------------------------------------------
(* llm_analyzer.py: _parse_llm_response *)

\* dict.get(key, default) on a mapping whose keys are each absent (None) or
\* present (Some(value))
DictGet_AlwaysDefault(mapping, key, default) == default

DictGet(mapping, key, default) ==
    IF mapping[key] = None THEN default ELSE mapping[key][1]

\* one turn of the for loop over response.get('triggers', []): a value the
\* enum does not know raises ValueError, which is caught, logged and skipped
ParseTrigger_NoCatch(trigger_value) ==
    LET member == WebSearchTrigger(trigger_value)
    IN  IF member.kind = "raise" THEN member ELSE Return(<<member.value>>)

ParseTrigger(trigger_value) ==
    LET member == WebSearchTrigger(trigger_value)
    IN  IF member.kind = "raise" THEN Return(<<>>) ELSE Return(<<member.value>>)

\* the whole loop; an exception that escapes a turn ends it
RECURSIVE ParseTriggers(_)
ParseTriggers(trigger_values) ==
    IF trigger_values = <<>> THEN Return(<<>>)
    ELSE LET first == ParseTrigger(Head(trigger_values))
         IN  IF first.kind = "raise" THEN first
             ELSE LET rest == ParseTriggers(Tail(trigger_values))
                  IN  IF rest.kind = "raise" THEN rest
                      ELSE Return(first.value \o rest.value)

\* the defaults of the response.get(...) calls
ParseDefaults_HalfConfidence ==
    [needs_web_search |-> FALSE, confidence |-> 5, triggers |-> <<>>,
     reasoning |-> <<>>, suggested_queries |-> <<>>, alternative_approach |-> None]

ParseDefaults ==
    [needs_web_search |-> FALSE, confidence |-> 0, triggers |-> <<>>,
     reasoning |-> <<>>, suggested_queries |-> <<>>, alternative_approach |-> None]

\* str(e) of the error the constructor raised (its first line)
ErrorText(e) ==
    IF e = "ValidationError" THEN Chars("1 validation error for WebSearchAnalysis")
    ELSE Chars("error")

\* the except branch of _parse_llm_response
ParseOnException_Reraise(e) == Raise(e)

ParseOnException(e) ==
    WebSearchAnalysis(FALSE, 0, <<>>, Chars("Error parsing LLM response: ") \o ErrorText(e), <<>>, None)

_parse_llm_response(resp) ==
    LET triggers == ParseTriggers(DictGet(resp, "triggers", ParseDefaults.triggers))
        built == IF triggers.kind = "raise" THEN triggers
                 ELSE WebSearchAnalysis(DictGet(resp, "needs_web_search", ParseDefaults.needs_web_search),
                                        DictGet(resp, "confidence", ParseDefaults.confidence),
                                        triggers.value,
                                        DictGet(resp, "reasoning", ParseDefaults.reasoning),
                                        DictGet(resp, "suggested_queries", ParseDefaults.suggested_queries),
                                        DictGet(resp, "alternative_approach", ParseDefaults.alternative_approach))
    IN  IF built.kind = "raise" THEN ParseOnException(built.error) ELSE built

-----------------------------------------------------------------------------
(* Inputs: response mappings.  Every key may be absent; a confidence may lie
   outside [0.0, 1.0]; a trigger string may lie outside the taxonomy;
   alternative_approach may be null. *)

ResponseConfidences ==
    (ConfidenceMin - MaxExcess)..ConfidenceMin \cup {8} \cup ConfidenceMax..(ConfidenceMax + MaxExcess)

ResponseTriggerValues == {"temporal", "technology", "bogus_category"}

Optional(S) == {None} \cup {Some(v) : v \in S}

Responses ==
    [needs_web_search : Optional(BOOLEAN),
     confidence : Optional(ResponseConfidences),
     triggers : Optional(SeqUpTo(ResponseTriggerValues, MaxTriggers)),
     reasoning : Optional({Chars(""), Chars("Query contains temporal indicators")}),
     suggested_queries : Optional({<<>>, <<Chars("AI trends 2024")>>}),
     alternative_approach : Optional({None, Some(Chars("Use general AI knowledge"))})]

-----------------------------------------------------------------------------
(* Specification SpecParse: _parse_llm_response applied to every response *)

InitParse ==
    /\ pc = "start"
    /\ response \in Responses
    /\ result = NoResult
    /\ request = NoRequest
    /\ kwargs = NoKwargs
    /\ llm = NoLLM
    /\ requests = <<>>
    /\ idx = 0
    /\ results = <<>>
    /\ outcomes = <<>>
    /\ calls = <<>>
    /\ inflight = 0
    /\ gate = NoGate
    /\ http = NoResult

ParseLLMResponseCall ==
    /\ pc = "start"
    /\ result' = _parse_llm_response(response)
    /\ pc' = "done"
    /\ UNCHANGED <<request, response, kwargs, llm, requests, idx, results, outcomes, calls, inflight, gate, http>>

NextParse == ParseLLMResponseCall

SpecParse == InitParse /\ [][NextParse]_vars

-----------------------------------------------------------------------------
(* Properties of _parse_llm_response, checked under SpecParse *)

\* the nine taxonomy values and the members they name
Taxonomy ==
    [temporal |-> "TEMPORAL", news |-> "NEWS", statistics |-> "STATISTICS",
     current_events |-> "CURRENT_EVENTS", prices |-> "PRICES", research |-> "RESEARCH",
     technology |-> "TECHNOLOGY", finance |-> "FINANCE",
     general_knowledge |-> "GENERAL_KNOWLEDGE"]

\* the entries of the list that are taxonomy values, in order, duplicates kept
Kept(trigger_values) ==
    LET known == SelectSeq(trigger_values, LAMBDA v : v \in DOMAIN Taxonomy)
    IN  [i \in 1..Len(known) |-> Taxonomy[known[i]]]

GivenTriggers(resp) == IF resp.triggers = None THEN <<>> ELSE resp.triggers[1]

\* the confidence handed to the constructor is inside [0.0, 1.0]
ConversionSucceeds(resp) ==
    \/ resp.confidence = None
    \/ resp.confidence # None /\ 0 <= resp.confidence[1] /\ resp.confidence[1] <= 10

WithoutUnknownTriggers(resp) ==
    IF resp.triggers = None THEN resp
    ELSE [resp EXCEPT !.triggers =
             Some(SelectSeq(resp.triggers[1], LAMBDA v : v \in DOMAIN Taxonomy))]

\* C5 as stated: for every response mapping the parsed result's triggers are
\* exactly the taxonomy-valued entries of the response's triggers, in order and
\* with duplicates.
C5_AsStated ==
    pc = "done" =>
        /\ result.kind = "return"
        /\ result.value.triggers = Kept(GivenTriggers(response))

\* C5 (amended): whenever the conversion into a WebSearchAnalysis succeeds,
\* the parsed result's triggers are exactly the taxonomy-valued entries of the
\* response's triggers, in order and with duplicates; entries outside the
\* taxonomy never abort the parse and never change the outcome (it is the
\* outcome for the same mapping without them); when the conversion fails the
\* diagnostic result has no triggers.
C5_TriggersFiltered ==
    pc = "done" =>
        /\ result.kind = "return"
        /\ ConversionSucceeds(response) =>
              result.value.triggers = Kept(GivenTriggers(response))
        /\ ~ConversionSucceeds(response) => result.value.triggers = <<>>
        /\ result = _parse_llm_response(WithoutUnknownTriggers(response))

\* an unknown entry in front of a known one (test_parse_llm_response_invalid_triggers)
C5_Witness ==
    /\ pc = "done"
    /\ response.triggers = Some(<<"bogus_category", "temporal">>)
    /\ response.confidence = Some(8)
    /\ result.kind = "return"
    /\ result.value.triggers = <<"TEMPORAL">>
    /\ result.value.confidence = 8

FieldsByDefault(resp) ==
    [needs_web_search |->
        IF resp.needs_web_search = None THEN FALSE ELSE resp.needs_web_search[1],
     confidence |-> IF resp.confidence = None THEN 0 ELSE resp.confidence[1],
     triggers |-> Kept(GivenTriggers(resp)),
     reasoning |-> IF resp.reasoning = None THEN Chars("") ELSE resp.reasoning[1],
     suggested_queries |->
        IF resp.suggested_queries = None THEN <<>> ELSE resp.suggested_queries[1],
     alternative_approach |->
        IF resp.alternative_approach = None THEN None ELSE resp.alternative_approach[1]]

\* C7 as stated: for every response mapping the parse does not raise, a missing
\* field gets its default (false, 0.0, [], '', [], absent) and a present field
\* is taken over unchanged.
C7_AsStated ==
    pc = "done" =>
        /\ result.kind = "return"
        /\ result.value = FieldsByDefault(response)

\* C7 (amended): the parse never raises, and whenever the conversion into a
\* WebSearchAnalysis succeeds a missing field gets its default (false, 0.0, [],
\* '', [], absent) and a present field is taken over unchanged (triggers after
\* the taxonomy filter).
C7_MissingFieldDefaults ==
    pc = "done" =>
        /\ result.kind = "return"
        /\ ConversionSucceeds(response) => result.value = FieldsByDefault(response)

\* only needs_web_search and confidence are given (test_parse_llm_response_missing_fields)
C7_Witness ==
    /\ pc = "done"
    /\ response.needs_web_search = Some(TRUE)
    /\ response.confidence = Some(8)
    /\ response.triggers = None
    /\ response.reasoning = None
    /\ response.suggested_queries = None
    /\ response.alternative_approach = None
    /\ result.kind = "return"
    /\ result.value.triggers = <<>>
    /\ result.value.reasoning = Chars("")
    /\ result.value.suggested_queries = <<>>
    /\ result.value.alternative_approach = None

-----------------------------------------------------------------------------
(* llm_analyzer.py: analyze_query.  The method suspends once, at the await of
   llm_client.generate_structured; the call then either raises or returns a
   mapping. *)

\* the except branch of analyze_query
AnalyzeOnException_Reraise(req, e) == Raise(e)

AnalyzeOnException(req, e) == _fallback_analysis(req)

\* analyze_query from the point where the awaited call completes
AnalyzeResume(req, call) ==
    LET tried == IF call.kind = "raise" THEN call ELSE _parse_llm_response(call.value)
    IN  IF tried.kind = "raise" THEN AnalyzeOnException(req, tried.error) ELSE tried

AnalyzeQueries == {Chars(""), Chars("what"), Chars("Latest news"), Chars("DATA")}

AnalyzeRequests ==
    {QueryAnalysisRequest(q, None, "medium", "en") : q \in AnalyzeQueries}

Pending == [kind |-> "pending"]

\* _get_analysis_schema: the JSON schema of the structured answer.  The
\* descriptions are left out; the confidence bounds are in tenths.
\* [trigger.value for trigger in WebSearchTrigger]
SchemaTriggerEnum == [i \in DOMAIN TriggerNames |-> TriggerValues[i]]

SchemaProperties ==
    [needs_web_search |-> [type |-> "boolean"],
     confidence |-> [type |-> "number", minimum |-> 0, maximum |-> 10],
     triggers |-> [type |-> "array", items |-> [type |-> "string", enum |-> SchemaTriggerEnum]],
     reasoning |-> [type |-> "string"],
     suggested_queries |-> [type |-> "array", items |-> [type |-> "string"]],
     alternative_approach |-> [type |-> "string"]]

SchemaRequired_NoReasoning ==
    <<"needs_web_search", "confidence", "triggers", "suggested_queries">>

SchemaRequired ==
    <<"needs_web_search", "confidence", "triggers", "reasoning", "suggested_queries">>

_get_analysis_schema ==
    [type |-> "object", properties |-> SchemaProperties, required |-> SchemaRequired]

\* self.analysis_schema, set once by __init__
analysis_schema == _get_analysis_schema

\* the generate_structured call analyze_query issues for req: the prompts are
\* built from req, the response format is the analysis schema, strict=True
GenerateStructuredCall_NotStrict(req) ==
    [op |-> "generate_structured", request |-> req, response_format |-> analysis_schema, strict |-> FALSE]

GenerateStructuredCall(req) ==
    [op |-> "generate_structured", request |-> req, response_format |-> analysis_schema, strict |-> TRUE]

\* the LLM calls the except branch of analyze_query issues: it logs and
\* returns the fallback result, the call is not repeated
AnalyzeCallsOnException_Retry(req) == <<GenerateStructuredCall(req)>>

AnalyzeCallsOnException(req) == <<>>

-----------------------------------------------------------------------------
(* Specification Spec: analyze_query called once with any request, the LLM
   call ending in any way.  The analyzer keeps nothing between calls. *)

Init ==
    /\ pc = "idle"
    /\ request = NoRequest
    /\ llm = NoLLM
    /\ result = NoResult
    /\ response = NoResponse
    /\ kwargs = NoKwargs
    /\ requests = <<>>
    /\ idx = 0
    /\ results = <<>>
    /\ outcomes = <<>>
    /\ calls = <<>>
    /\ inflight = 0
    /\ gate = NoGate
    /\ http = NoResult

\* analyze_query(request) up to the await: prompts built, the call issued
AnalyzeQuery(req) ==
    /\ pc = "idle"
    /\ request' = req
    /\ llm' = Pending
    /\ result' = NoResult
    /\ pc' = "awaiting"
    /\ calls' = Append(calls, GenerateStructuredCall(req))
    /\ inflight' = inflight + 1
    /\ UNCHANGED <<response, kwargs, requests, idx, results, outcomes, gate, http>>

\* generate_structured raises
LLMRaises ==
    /\ pc = "awaiting"
    /\ llm' = Raise("Exception")
    /\ result' = AnalyzeResume(request, llm')
    /\ pc' = "done"
    /\ inflight' = inflight - 1
    /\ calls' = calls \o AnalyzeCallsOnException(request)
    /\ UNCHANGED <<request, response, kwargs, requests, idx, results, outcomes, gate, http>>

\* generate_structured returns a mapping
LLMReturns ==
    /\ pc = "awaiting"
    /\ \E resp \in Responses : llm' = Return(resp)
    /\ result' = AnalyzeResume(request, llm')
    /\ pc' = "done"
    /\ inflight' = inflight - 1
    /\ UNCHANGED <<request, response, kwargs, requests, idx, results, outcomes, calls, gate, http>>

Next ==
    \/ \E req \in AnalyzeRequests : AnalyzeQuery(req)
    \/ LLMRaises
    \/ LLMReturns

Spec == Init /\ [][Next]_vars

\* C1: when the structured LLM call raises, analyze_query does not raise: it
\* returns exactly what _fallback_analysis computes for the same request.
C1_CallFailureFallsBack ==
    (pc = "done" /\ llm.kind = "raise") =>
        /\ result.kind = "return"
        /\ result = _fallback_analysis(request)

\* the call failed for a query that holds keywords
C1_Witness ==
    /\ pc = "done"
    /\ llm.kind = "raise"
    /\ request.user_query = Chars("Latest news")
    /\ result.kind = "return"
    /\ result.value.needs_web_search
    /\ result.value.reasoning = FallbackReasoning

\* the mapping the call returned cannot be converted: its confidence is
\* outside [0.0, 1.0]
ConversionRaises ==
    /\ llm.kind = "return"
    /\ llm.value.confidence # None
    /\ (llm.value.confidence[1] < 0 \/ llm.value.confidence[1] > 10)

\* C6: when the call succeeds but the conversion raises, analyze_query returns
\* the diagnostic result (needs_web_search false, confidence 0.0, no triggers,
\* no suggested queries, reasoning prefixed 'Error parsing LLM response') and
\* not the keyword fallback, also for a query that holds fallback keywords.
C6_ParseFailureDiagnostic ==
    (pc = "done" /\ ConversionRaises) =>
        /\ result.kind = "return"
        /\ result.value.needs_web_search = FALSE
        /\ result.value.confidence = 0
        /\ result.value.triggers = <<>>
        /\ result.value.suggested_queries = <<>>
        /\ StartsWith(result.value.reasoning, Chars("Error parsing LLM response"))
        /\ ~StartsWith(result.value.reasoning, Chars("Fallback analysis"))
        /\ result.value.confidence \notin {4, 6}

\* the query holds keywords, the response says search with confidence 1.1
C6_Witness ==
    /\ pc = "done"
    /\ ConversionRaises
    /\ request.user_query = Chars("Latest news")
    /\ llm.value.needs_web_search = Some(TRUE)
    /\ llm.value.confidence = Some(11)
    /\ result.kind = "return"
    /\ ~result.value.needs_web_search
    /\ result.value.confidence = 0

\* C20 as stated: in every result analyze_query returns, alternative_approach
\* is present only when needs_web_search is false.
C20_AsStated ==
    (pc = "done" /\ result.kind = "return") =>
        (result.value.alternative_approach # None => ~result.value.needs_web_search)

\* what the response carries under alternative_approach: nothing when the key
\* is missing or null
GivenAlternative(resp) ==
    IF resp.alternative_approach = None THEN None ELSE resp.alternative_approach[1]

\* C20: analyze_query never writes alternative_approach itself: it is absent
\* from the fallback result and from the parse-failure diagnostic, and a
\* converted LLM response keeps the alternative_approach it carries, whatever
\* its needs_web_search.
C20_AlternativeFollowsResponse ==
    pc = "done" =>
        /\ result.kind = "return"
        /\ (llm.kind = "raise" \/ ConversionRaises) =>
              result.value.alternative_approach = None
        /\ (llm.kind = "return" /\ ~ConversionRaises) =>
              /\ result.value.alternative_approach = GivenAlternative(llm.value)
              /\ llm.value.needs_web_search # None =>
                    result.value.needs_web_search = llm.value.needs_web_search[1]

\* the response recommends a search and carries an alternative approach
C20_Witness ==
    /\ pc = "done"
    /\ llm.kind = "return"
    /\ llm.value.needs_web_search = Some(TRUE)
    /\ llm.value.alternative_approach = Some(Some(Chars("Use general AI knowledge")))
    /\ result.kind = "return"
    /\ result.value.needs_web_search
    /\ result.value.alternative_approach = Some(Chars("Use general AI knowledge"))

\* the calls of one operation among those issued so far
CallsOf(op) == SelectSeq(calls, LAMBDA c : c.op = op)

\* the schemas handed to the LLM so far
SchemasPassed == {c.response_format : c \in Range(CallsOf("generate_structured"))}

\* the schema declares the six properties and constrains the items of triggers
\* to the nine taxonomy values
SchemaShape(schema) ==
    /\ schema.type = "object"
    /\ DOMAIN schema.properties =
          {"needs_web_search", "confidence", "triggers", "reasoning",
           "suggested_queries", "alternative_approach"}
    /\ schema.properties.needs_web_search.type = "boolean"
    /\ schema.properties.confidence.type = "number"
    /\ schema.properties.triggers.type = "array"
    /\ schema.properties.reasoning.type = "string"
    /\ schema.properties.suggested_queries.type = "array"
    /\ schema.properties.alternative_approach.type = "string"
    /\ Len(schema.properties.triggers.items.enum) = 9
    /\ Range(schema.properties.triggers.items.enum) =
          {"temporal", "news", "statistics", "current_events", "prices",
           "research", "technology", "finance", "general_knowledge"}

\* C21 as stated: the schema passed to the LLM call declares the six
\* properties, constrains triggers items to the nine taxonomy values, and
\* requires needs_web_search, confidence, triggers and reasoning while leaving
\* suggested_queries and alternative_approach optional.
C21_AsStated ==
    \A schema \in SchemasPassed :
        /\ SchemaShape(schema)
        /\ Range(schema.required) = {"needs_web_search", "confidence", "triggers", "reasoning"}

\* C21: the schema passed to the LLM call declares the six properties,
\* constrains triggers items to the nine taxonomy values, and requires
\* needs_web_search, confidence, triggers, reasoning and suggested_queries;
\* alternative_approach alone is optional.
C21_SchemaContract ==
    \A schema \in SchemasPassed :
        /\ SchemaShape(schema)
        /\ Range(schema.required) =
              {"needs_web_search", "confidence", "triggers", "reasoning", "suggested_queries"}
        /\ DOMAIN schema.properties \ Range(schema.required) = {"alternative_approach"}

\* a call has been issued with the schema and answered without
\* suggested_queries
C21_Witness ==
    /\ pc = "done"
    /\ SchemasPassed # {}
    /\ llm.kind = "return"
    /\ llm.value.suggested_queries = None
    /\ llm.value.reasoning # None
    /\ result.kind = "return"
    /\ result.value.suggested_queries = <<>>

\* C17: an analyze_query invocation issues at most one structured LLM call,
\* marked strict; after that call fails no further LLM call is issued for the
\* request (no retry) and the result is the fallback rule's alone.
C17_SingleStrictCallNoRetry ==
    /\ Len(CallsOf("generate_structured")) <= 1
    /\ inflight \in 0..1
    /\ \A i \in DOMAIN calls :
          calls[i].op = "generate_structured" =>
              /\ calls[i].strict
              /\ calls[i].request = request
    /\ pc # "idle" => Len(CallsOf("generate_structured")) = 1
    /\ (pc = "done" /\ llm.kind = "raise") =>
          /\ inflight = 0
          /\ result = _fallback_analysis(request)
          /\ result.value.reasoning = FallbackReasoning

\* the single strict call failed and the fallback answered
C17_Witness ==
    /\ pc = "done"
    /\ llm.kind = "raise"
    /\ calls = <<GenerateStructuredCall(request)>>
    /\ calls[1].strict
    /\ inflight = 0
    /\ request.user_query = Chars("DATA")
    /\ result.value.triggers = <<"STATISTICS">>

-----------------------------------------------------------------------------
(* llm_analyzer.py: batch_analyze *)

\* results.append(analysis)
BatchAppend_Prepend(list, analysis) == <<analysis>> \o list

BatchAppend(list, analysis) == Append(list, analysis)

\* the except branch of the loop body: the fallback result for this request
BatchOnError_Reraise(req, e) == Raise(e)

BatchOnError(req, e) == _fallback_analysis(req)

\* the loop body from the point where `await self.analyze_query(request)`
\* completes with `analysis` (returned or raised): what is appended, or the
\* exception that leaves batch_analyze
BatchItem(req, analysis) ==
    IF analysis.kind = "raise" THEN BatchOnError(req, analysis.error) ELSE analysis

\* an invocation of analyze_query
AnalyzeQueryCall(req) == [op |-> "analyze_query", request |-> req]

\* `analysis = await self.analyze_query(request)`: the loop is suspended
\* until the invocation has ended
BatchAwait_NoSuspend == "loop"

BatchAwait == "awaiting"

BatchQueries == {Chars("what"), Chars("Latest news"), Chars("DATA")}

BatchRequests ==
    SeqUpTo({QueryAnalysisRequest(q, None, "medium", "en") : q \in BatchQueries}, MaxBatch)

\* a well-formed response, one with an unknown trigger, one whose confidence
\* is out of range
BatchResponses ==
    { [needs_web_search |-> Some(TRUE), confidence |-> Some(8),
       triggers |-> Some(<<"temporal">>),
       reasoning |-> Some(Chars("Query contains temporal indicators")),
       suggested_queries |-> Some(<<Chars("AI trends 2024")>>),
       alternative_approach |-> None],
      [needs_web_search |-> Some(FALSE), confidence |-> Some(0),
       triggers |-> Some(<<"bogus_category">>),
       reasoning |-> Some(Chars("")),
       suggested_queries |-> Some(<<>>),
       alternative_approach |-> Some(Some(Chars("Use general AI knowledge")))],
      [needs_web_search |-> Some(TRUE), confidence |-> Some(ConfidenceMax + 1),
       triggers |-> Some(<<>>),
       reasoning |-> Some(Chars("Query contains temporal indicators")),
       suggested_queries |-> Some(<<>>),
       alternative_approach |-> None],
      [needs_web_search |-> Some(TRUE), confidence |-> Some(7),
       triggers |-> Some(<<"news">>),
       reasoning |-> None,
       suggested_queries |-> None,
       alternative_approach |-> None] }

-----------------------------------------------------------------------------
(* Specification SpecBatch: batch_analyze called once with any list of requests.
   analyze_query is either the method above, which ends as its LLM call ends,
   or a replacement that raises (the analyzer's tests patch it that way). *)

InitBatch ==
    /\ pc = "idle"
    /\ requests = <<>>
    /\ idx = 0
    /\ results = <<>>
    /\ outcomes = <<>>
    /\ calls = <<>>
    /\ inflight = 0
    /\ gate = NoGate
    /\ http = NoResult
    /\ request = NoRequest
    /\ llm = NoLLM
    /\ result = NoResult
    /\ response = NoResponse
    /\ kwargs = NoKwargs

\* batch_analyze(requests): results = [], the loop is entered
BatchAnalyze(reqs) ==
    /\ pc = "idle"
    /\ requests' = reqs
    /\ results' = <<>>
    /\ outcomes' = <<>>
    /\ idx' = 1
    /\ pc' = "loop"
    /\ UNCHANGED <<request, response, kwargs, llm, result, calls, inflight, gate, http>>

\* the loop takes the next request and awaits analyze_query, which issues its
\* LLM call
BatchCallAnalyze ==
    /\ pc = "loop"
    /\ idx <= Len(requests)
    /\ request' = requests[idx]
    /\ llm' = Pending
    /\ calls' = calls \o <<AnalyzeQueryCall(requests[idx]), GenerateStructuredCall(requests[idx])>>
    /\ inflight' = inflight + 1
    /\ pc' = BatchAwait
    /\ UNCHANGED <<response, kwargs, result, requests, idx, results, outcomes, gate, http>>

\* analyze_query has completed with `analysis` for req: the rest of the loop body
\* (`call` is how its LLM call ended, NoResult when it made none)
BatchItemDone(req, analysis, call) ==
    LET item == BatchItem(req, analysis)
    IN  /\ outcomes' = Append(outcomes, [request |-> req, analysis |-> analysis, llm |-> call])
        /\ IF item.kind = "raise"
           THEN /\ result' = item
                /\ pc' = "done"
                /\ UNCHANGED <<results, idx>>
           ELSE /\ results' = BatchAppend(results, item.value)
                /\ idx' = idx + 1
                /\ pc' = "loop"
                /\ UNCHANGED result

\* the LLM call of the awaited analyze_query raises
BatchLLMRaises ==
    /\ pc = "awaiting"
    /\ llm' = Raise("Exception")
    /\ BatchItemDone(request, AnalyzeResume(request, llm'), llm')
    /\ inflight' = inflight - 1
    /\ calls' = calls \o AnalyzeCallsOnException(request)
    /\ UNCHANGED <<request, response, kwargs, requests, gate, http>>

\* the LLM call of the awaited analyze_query returns a mapping
BatchLLMReturns ==
    /\ pc = "awaiting"
    /\ \E resp \in BatchResponses : llm' = Return(resp)
    /\ BatchItemDone(request, AnalyzeResume(request, llm'), llm')
    /\ inflight' = inflight - 1
    /\ UNCHANGED <<request, response, kwargs, requests, calls, gate, http>>

\* the loop takes the next request and the awaited analyze_query raises
BatchAnalyzeQueryRaises ==
    /\ pc = "loop"
    /\ idx <= Len(requests)
    /\ request' = requests[idx]
    /\ BatchItemDone(requests[idx], Raise("Exception"), NoResult)
    /\ calls' = Append(calls, AnalyzeQueryCall(requests[idx]))
    /\ UNCHANGED <<response, kwargs, llm, requests, inflight, gate, http>>

\* the loop is exhausted: return results
BatchReturn ==
    /\ pc = "loop"
    /\ idx > Len(requests)
    /\ result' = Return(results)
    /\ pc' = "done"
    /\ UNCHANGED <<request, response, kwargs, llm, requests, idx, results, outcomes, calls, inflight, gate, http>>

NextBatch ==
    \/ \E reqs \in BatchRequests : BatchAnalyze(reqs)
    \/ BatchCallAnalyze
    \/ BatchLLMRaises
    \/ BatchLLMReturns
    \/ BatchAnalyzeQueryRaises
    \/ BatchReturn

SpecBatch == InitBatch /\ [][NextBatch]_vars

\* what the batch has to hold for an item, given what analyze_query did for it
ItemResult(outcome) ==
    IF outcome.analysis.kind = "return" THEN outcome.analysis.value
    ELSE _fallback_analysis(outcome.request).value

\* C9: batch_analyze returns a list as long as its input whose i-th element is
\* the result computed for the i-th request, whatever the per-item pattern of
\* success and failure; for the empty input it returns the empty list.
C9_BatchOrderAndLength ==
    pc = "done" =>
        /\ result.kind = "return"
        /\ Len(result.value) = Len(requests)
        /\ Len(outcomes) = Len(requests)
        /\ \A i \in 1..Len(requests) :
              /\ outcomes[i].request = requests[i]
              /\ result.value[i] = ItemResult(outcomes[i])
        /\ requests = <<>> => result.value = <<>>

\* two different requests whose analyses differ, both kept in request order
C9_Witness ==
    /\ pc = "done"
    /\ result.kind = "return"
    /\ Len(requests) = 2
    /\ requests[1].user_query = Chars("Latest news")
    /\ requests[2].user_query = Chars("what")
    /\ outcomes[1].analysis.kind = "return"
    /\ outcomes[2].analysis.kind = "return"
    /\ result.value[1].needs_web_search
    /\ ~result.value[2].needs_web_search
    /\ result.value[1] # result.value[2]

\* every item analysed so far whose analyze_query raised holds the fallback
\* result of its own request
RaisedItemsHoldFallback ==
    \A i \in 1..Len(results) :
        (i <= Len(outcomes) /\ outcomes[i].analysis.kind = "raise") =>
            /\ outcomes[i].request = requests[i]
            /\ Return(results[i]) = _fallback_analysis(requests[i])

\* a step never changes the results produced before it
EarlierResultsKept ==
    /\ Len(results') >= Len(results)
    /\ SubSeq(results', 1, Len(results)) = results

\* C10: if analyze_query raises for item i, result[i] is the fallback result
\* for request[i], the results of the items before i stay as they were, every
\* item after i is still analysed, and batch_analyze itself never raises.
C10_BatchIsolatesFailures ==
    /\ [](RaisedItemsHoldFallback)
    /\ [][EarlierResultsKept]_vars
    /\ [](pc = "done" =>
            /\ result.kind = "return"
            /\ Len(outcomes) = Len(requests)
            /\ Len(result.value) = Len(requests))

\* analyze_query raised for the first item and returned for the second
C10_Witness ==
    /\ pc = "done"
    /\ result.kind = "return"
    /\ Len(requests) = 2
    /\ outcomes[1].analysis.kind = "raise"
    /\ outcomes[2].analysis.kind = "return"
    /\ requests[1].user_query = Chars("DATA")
    /\ result.value[1].reasoning = FallbackReasoning
    /\ result.value[1].triggers = <<"STATISTICS">>
    /\ result.value[2].reasoning = Chars("Query contains temporal indicators")

\* the invocations of analyze_query follow the request list, and each LLM call
\* is the one of the invocation issued just before it
InvocationsInOrder ==
    LET invoked == CallsOf("analyze_query")
    IN  /\ Len(invoked) <= Len(requests)
        /\ \A k \in 1..Len(invoked) : invoked[k].request = requests[k]
        /\ Len(results) \in {Len(invoked) - 1, Len(invoked)}
        /\ \A i \in DOMAIN calls :
              calls[i].op = "generate_structured" =>
                  /\ i > 1
                  /\ calls[i - 1] = AnalyzeQueryCall(calls[i].request)
                  /\ calls[i].strict

\* a step that issues a call finds the result of every earlier invocation
\* appended
StartsAfterAppend ==
    calls' # calls =>
        /\ Len(results) = Len(CallsOf("analyze_query"))
        /\ inflight = 0

\* C18: batch_analyze issues the LLM calls strictly sequentially in request
\* order: the call for item i+1 is not started before the result for item i
\* has been produced and appended, at most one LLM call is in flight at any
\* time, and exactly one analyze_query invocation is made per item.
C18_BatchIsSequential ==
    /\ [](inflight \in 0..1)
    /\ [](InvocationsInOrder)
    /\ [][StartsAfterAppend]_vars
    /\ [](pc = "done" =>
            /\ Len(CallsOf("analyze_query")) = Len(requests)
            /\ inflight = 0)

\* two items, each analysed by one invocation with one LLM call, in order
C18_Witness ==
    /\ pc = "done"
    /\ Len(requests) = 2
    /\ requests[1] # requests[2]
    /\ calls = <<AnalyzeQueryCall(requests[1]), GenerateStructuredCall(requests[1]),
                 AnalyzeQueryCall(requests[2]), GenerateStructuredCall(requests[2])>>
    /\ inflight = 0
    /\ Len(results) = 2

-----------------------------------------------------------------------------
(* endpoints.py: batch_analyze_queries, the handler of POST /batch-analyze *)

\* `analysis.reasoning and "Error" not in analysis.reasoning`
CountsAsSuccess_IgnoreEmpty(analysis) ==
    ~Contains(analysis.reasoning, Chars("Error"))

CountsAsSuccess(analysis) ==
    analysis.reasoning # <<>> /\ ~Contains(analysis.reasoning, Chars("Error"))

\* the body of the counting loop
CountStep_SkipErrors(counts, analysis) ==
    IF CountsAsSuccess(analysis)
    THEN [counts EXCEPT !.success_count = @ + 1]
    ELSE counts

CountStep(counts, analysis) ==
    IF CountsAsSuccess(analysis)
    THEN [counts EXCEPT !.success_count = @ + 1]
    ELSE [counts EXCEPT !.error_count = @ + 1]

\* `for analysis in analyses:` over the two counters
RECURSIVE CountLoop(_, _)
CountLoop(counts, analyses) ==
    IF analyses = <<>> THEN counts
    ELSE CountLoop(CountStep(counts, Head(analyses)), Tail(analyses))

BatchAnalysisResponse(results_, total_analyzed, success_count, error_count) ==
    [results |-> results_, total_analyzed |-> total_analyzed, success_count |-> success_count, error_count |-> error_count]

HTTPException(status_code, detail) == [status_code |-> status_code, detail |-> detail]

\* the handler from the point where `await analyzer.batch_analyze(request.queries)`
\* completes with `call`
BatchAnalyzeQueriesResume(queries, call) ==
    IF call.kind = "raise"
    THEN Raise(HTTPException(500, Chars("Batch analysis failed: ") \o ErrorText(call.error)))
    ELSE LET counts == CountLoop([success_count |-> 0, error_count |-> 0], call.value)
         IN  Return(BatchAnalysisResponse(call.value, Len(queries), counts.success_count, counts.error_count))

-----------------------------------------------------------------------------
(* Specification SpecEndpoint: one POST /batch-analyze or one POST /analyze.  The
   batch handler creates an analyzer and awaits batch_analyze (the actions of
   SpecBatch), then counts and answers; the single handler awaits
   analyze_query and answers.  Either awaited method may also be a replacement
   that raises (the endpoint's tests patch it that way). *)

\* batch_analyze has returned: the counting loop and the response
EndpointRespond ==
    /\ pc = "done"
    /\ http' = BatchAnalyzeQueriesResume(requests, result)
    /\ pc' = "responded"
    /\ UNCHANGED <<request, response, kwargs, llm, result, requests, idx, results, outcomes, calls, inflight, gate>>

\* batch_analyze raises: the except branch of the handler
EndpointBatchRaises ==
    /\ pc = "idle"
    /\ \E reqs \in BatchRequests : requests' = reqs
    /\ result' = Raise("Exception")
    /\ http' = BatchAnalyzeQueriesResume(requests', result')
    /\ pc' = "responded"
    /\ UNCHANGED <<request, response, kwargs, llm, idx, results, outcomes, calls, inflight, gate>>

\* analyze_web_search_need, the handler of POST /analyze: its except branch
AnalyzeEndpointOnError_NoMessage(e) ==
    Raise(HTTPException(500, Chars("Analysis failed")))

AnalyzeEndpointOnError(e) ==
    Raise(HTTPException(500, Chars("Analysis failed: ") \o ErrorText(e)))

\* the handler from the point where `await analyzer.analyze_query(request)`
\* completes with `call`
AnalyzeEndpointResume(call) ==
    IF call.kind = "raise" THEN AnalyzeEndpointOnError(call.error) ELSE call

\* POST /analyze up to the await of the LLM call inside analyze_query
EndpointAnalyze(req) ==
    /\ pc = "idle"
    /\ request' = req
    /\ llm' = Pending
    /\ calls' = calls \o <<AnalyzeQueryCall(req), GenerateStructuredCall(req)>>
    /\ inflight' = inflight + 1
    /\ pc' = "analyzing"
    /\ UNCHANGED <<response, kwargs, result, requests, idx, results, outcomes, gate, http>>

\* the analyzer's analyze_query has completed with `analysis`: the answer
EndpointAnalyzeDone(analysis) ==
    /\ result' = analysis
    /\ http' = AnalyzeEndpointResume(analysis)
    /\ pc' = "analyze_responded"

\* the LLM call of the awaited analyze_query raises
EndpointAnalyzeLLMRaises ==
    /\ pc = "analyzing"
    /\ llm' = Raise("Exception")
    /\ inflight' = inflight - 1
    /\ calls' = calls \o AnalyzeCallsOnException(request)
    /\ EndpointAnalyzeDone(AnalyzeResume(request, llm'))
    /\ UNCHANGED <<request, response, kwargs, requests, idx, results, outcomes, gate>>

\* the LLM call of the awaited analyze_query returns a mapping
EndpointAnalyzeLLMReturns ==
    /\ pc = "analyzing"
    /\ \E resp \in Responses : llm' = Return(resp)
    /\ inflight' = inflight - 1
    /\ EndpointAnalyzeDone(AnalyzeResume(request, llm'))
    /\ UNCHANGED <<request, response, kwargs, requests, idx, results, outcomes, calls, gate>>

\* analyze_query raises (a replacement, as the endpoint's tests patch it)
EndpointAnalyzeRaises(req) ==
    /\ pc = "idle"
    /\ request' = req
    /\ calls' = Append(calls, AnalyzeQueryCall(req))
    /\ EndpointAnalyzeDone(Raise("Exception"))
    /\ UNCHANGED <<response, kwargs, llm, requests, idx, results, outcomes, inflight, gate>>

NextEndpoint ==
    \/ \E reqs \in BatchRequests : BatchAnalyze(reqs)
    \/ BatchCallAnalyze
    \/ BatchLLMRaises
    \/ BatchLLMReturns
    \/ BatchAnalyzeQueryRaises
    \/ BatchReturn
    \/ EndpointRespond
    \/ EndpointBatchRaises
    \/ \E req \in AnalyzeRequests : EndpointAnalyze(req)
    \/ EndpointAnalyzeLLMRaises
    \/ EndpointAnalyzeLLMReturns
    \/ \E req \in AnalyzeRequests : EndpointAnalyzeRaises(req)

SpecEndpoint == InitBatch /\ [][NextEndpoint]_vars

\* the reasoning holds the literal the fallback rule writes
HasFallbackMarker(analysis) == Contains(analysis.reasoning, Chars("Fallback analysis"))

Answered == pc = "responded" /\ http.kind = "return"

\* C11: in the batch summary an item is counted in error_count if and only if
\* its reasoning contains the literal written by the fallback rule
\* ('Fallback analysis ...'); every other item is counted in success_count.
C11_ErrorIffFallbackMarker ==
    Answered =>
        LET items == http.value.results
            marked == {i \in 1..Len(items) : HasFallbackMarker(items[i])}
        IN  /\ http.value.error_count = Cardinality(marked)
            /\ http.value.success_count = Len(items) - Cardinality(marked)

\* C12: the summary of every batch request has total_analyzed = number of
\* requests = number of results and success_count + error_count =
\* total_analyzed, each item counted once; for the empty batch the results
\* list is empty and the three counters are 0.
C12_BatchSummaryCounts ==
    Answered =>
        /\ http.value.total_analyzed = Len(requests)
        /\ http.value.total_analyzed = Len(http.value.results)
        /\ http.value.success_count \in 0..Len(requests)
        /\ http.value.error_count \in 0..Len(requests)
        /\ http.value.success_count + http.value.error_count = http.value.total_analyzed
        /\ requests = <<>> =>
              /\ http.value.results = <<>>
              /\ http.value.total_analyzed = 0
              /\ http.value.success_count = 0
              /\ http.value.error_count = 0

\* a batch of two answered with one success and one error
C12_Witness ==
    /\ Answered
    /\ Len(requests) = 2
    /\ http.value.total_analyzed = 2
    /\ http.value.success_count = 1
    /\ http.value.error_count = 1
    /\ http.value.results[1].reasoning = Chars("Query contains temporal indicators")
    /\ StartsWith(http.value.results[2].reasoning, Chars("Error parsing LLM response"))

\* the answer is HTTP 500 and nothing else, its detail the prefix followed by
\* the message of the error
Answers500(prefix, e) ==
    /\ http.kind = "raise"
    /\ DOMAIN http = {"kind", "error"}
    /\ DOMAIN http.error = {"status_code", "detail"}
    /\ http.error.status_code = 500
    /\ http.error.detail = prefix \o ErrorText(e)
    /\ Contains(http.error.detail, ErrorText(e))

\* C24: /analyze and /batch-analyze answer HTTP 500 with a detail embedding
\* the error message when the analyzer operation raises, and otherwise answer
\* 200 with the analyzer's result unchanged; an answer never holds a partial
\* result together with an error.
C24_EndpointErrorsAre500 ==
    /\ pc = "analyze_responded" =>
          IF result.kind = "raise"
          THEN Answers500(Chars("Analysis failed: "), result.error)
          ELSE http = Return(result.value)
    /\ pc = "responded" =>
          IF result.kind = "raise"
          THEN Answers500(Chars("Batch analysis failed: "), result.error)
          ELSE /\ http.kind = "return"
               /\ DOMAIN http = {"kind", "value"}
               /\ http.value.results = result.value

\* /analyze answered 500 for a query whose analysis raised
C24_Witness ==
    /\ pc = "analyze_responded"
    /\ request.user_query = Chars("Latest news")
    /\ result.kind = "raise"
    /\ http.kind = "raise"
    /\ http.error.status_code = 500
    /\ StartsWith(http.error.detail, Chars("Analysis failed: "))

\* the mapping the LLM returned could not be made into a result
ParseFailed(resp) == _parse_llm_response(resp) = ParseOnException("ValidationError")

\* the items of the answer the claim calls errors
ErrorItems ==
    {i \in 1..Len(http.value.results) :
        \/ http.value.results[i].reasoning = <<>>
        \/ Contains(http.value.results[i].reasoning, Chars("Error"))}

\* C27: the batch endpoint counts a result in error_count exactly when its
\* reasoning is empty or contains 'Error', and in success_count otherwise; so
\* every parse-failure result and every result whose reasoning defaulted to
\* the empty string is an error, and a fallback result produced after a
\* failure of the LLM call is a success.
C27_ErrorIffEmptyOrErrorReasoning ==
    Answered =>
        /\ http.value.error_count = Cardinality(ErrorItems)
        /\ http.value.success_count = Len(http.value.results) - Cardinality(ErrorItems)
        /\ \A i \in 1..Len(http.value.results) :
              LET call == outcomes[i].llm
              IN  /\ (call.kind = "return" /\ ParseFailed(call.value)) => i \in ErrorItems
                  /\ (call.kind = "return" /\ ~ParseFailed(call.value) /\ call.value.reasoning = None) =>
                        i \in ErrorItems
                  /\ call.kind = "raise" =>
                        /\ http.value.results[i] = _fallback_analysis(requests[i]).value
                        /\ i \notin ErrorItems

\* a batch of two: the first LLM call failed, the second returned a mapping
\* without reasoning; one success and one error
C27_Witness ==
    /\ Answered
    /\ Len(requests) = 2
    /\ outcomes[1].llm.kind = "raise"
    /\ outcomes[2].llm.kind = "return"
    /\ outcomes[2].llm.value.reasoning = None
    /\ http.value.results[2].reasoning = <<>>
    /\ http.value.success_count = 1
    /\ http.value.error_count = 1

\* a result within the bounds of its model
WellFormedResult(analysis) ==
    /\ ConfidenceMin <= analysis.confidence
    /\ analysis.confidence <= ConfidenceMax
    /\ \A i \in DOMAIN analysis.triggers : analysis.triggers[i] \in WebSearchTriggerMembers

\* C28: every result returned by analyze_query or contained in a
\* batch_analyze result, whether the LLM call failed or returned any mapping,
\* has 0.0 <= confidence <= 1.0 and triggers that are all members of the
\* nine-value taxonomy.
C28_ResultsWellFormed ==
    /\ Cardinality(WebSearchTriggerMembers) = 9
    /\ (pc = "analyze_responded" /\ result.kind = "return") => WellFormedResult(result.value)
    /\ \A i \in DOMAIN outcomes :
          outcomes[i].analysis.kind = "return" => WellFormedResult(outcomes[i].analysis.value)
    /\ \A i \in DOMAIN results : WellFormedResult(results[i])
    /\ (pc \in {"done", "responded"} /\ result.kind = "return") =>
          \A i \in DOMAIN result.value : WellFormedResult(result.value[i])

\* analyze_query returned for a mapping with a confidence above 1.0 and a
\* string outside the taxonomy among its triggers
C28_Witness ==
    /\ pc = "analyze_responded"
    /\ llm.kind = "return"
    /\ llm.value.confidence = Some(ConfidenceMax + 1)
    /\ llm.value.triggers = Some(<<"bogus_category", "temporal">>)
    /\ result.kind = "return"
    /\ result.value.confidence = 0
    /\ result.value.triggers = <<>>

-----------------------------------------------------------------------------
(* enhanced_llm_client.py: should_enable_web_grounding and its own keyword
   rule _fallback_web_search_decision *)

\* the three keyword lists local to _fallback_web_search_decision
GateTemporalKeywords ==
    << Chars("current"), Chars("latest"), Chars("recent"), Chars("today"),
       Chars("now"), Chars("2024"), Chars("2025"),
       \* текущий
       <<"U+0442", "U+0435", "U+043A", "U+0443", "U+0449", "U+0438", "U+0439">>,
       \* последний
       <<"U+043F", "U+043E", "U+0441", "U+043B", "U+0435", "U+0434", "U+043D", "U+0438", "U+0439">>,
       \* недавно
       <<"U+043D", "U+0435", "U+0434", "U+0430", "U+0432", "U+043D", "U+043E">>,
       \* сейчас
       <<"U+0441", "U+0435", "U+0439", "U+0447", "U+0430", "U+0441">> >>

GateNewsKeywords ==
    << Chars("news"), Chars("events"), Chars("announcements"), Chars("developments"),
       \* новости
       <<"U+043D", "U+043E", "U+0432", "U+043E", "U+0441", "U+0442", "U+0438">>,
       \* события
       <<"U+0441", "U+043E", "U+0431", "U+044B", "U+0442", "U+0438", "U+044F">>,
       \* объявления
       <<"U+043E", "U+0431", "U+044A", "U+044F", "U+0432", "U+043B", "U+0435", "U+043D", "U+0438", "U+044F">> >>

GateStatsKeywords ==
    << Chars("statistics"), Chars("data"), Chars("figures"), Chars("analysis"),
       Chars("report"),
       \* статистика
       <<"U+0441", "U+0442", "U+0430", "U+0442", "U+0438", "U+0441", "U+0442", "U+0438", "U+043A", "U+0430">>,
       \* данные
       <<"U+0434", "U+0430", "U+043D", "U+043D", "U+044B", "U+0435">>,
       \* анализ
       <<"U+0430", "U+043D", "U+0430", "U+043B", "U+0438", "U+0437">>,
       \* отчет
       <<"U+043E", "U+0442", "U+0447", "U+0435", "U+0442">>,
       \* стаья
       <<"U+0441", "U+0442", "U+0430", "U+044C", "U+044F">> >>

_fallback_web_search_decision(user_query) ==
    LET query_lower == Lower(user_query)
        has_temporal == AnyKeyword(query_lower, GateTemporalKeywords)
        has_news == AnyKeyword(query_lower, GateNewsKeywords)
        has_stats == AnyKeyword(query_lower, GateStatsKeywords)
    IN  has_temporal \/ has_news \/ has_stats

\* an invocation of _fallback_web_search_decision
GateFallbackCall(user_query) == [op |-> "_fallback_web_search_decision", user_query |-> user_query]

\* `if not self.enable_web_grounding(): return False` lets the analysis run
\* only for a provider that supports web grounding
GateSupported_Always(enabled) == TRUE

GateSupported(enabled) == enabled

\* the request built for the analyzer; language keeps the model's default
GateRequest_HighSensitivity(user_query, presentation_context) ==
    QueryAnalysisRequest(user_query, presentation_context, "high", "en")

GateRequest(user_query, presentation_context) ==
    QueryAnalysisRequest(user_query, presentation_context, "medium", "en")

\* the except branch of should_enable_web_grounding
GateOnException_Reraise(user_query, e) == Raise(e)

GateOnException(user_query, e) == Return(_fallback_web_search_decision(user_query))

\* should_enable_web_grounding from the point where the awaited analyze_query
\* completes with `analysis` (returned or raised)
GateResume(user_query, analysis) ==
    IF analysis.kind = "raise" THEN GateOnException(user_query, analysis.error)
    ELSE Return(analysis.value.needs_web_search)

\* the calls the except branch makes
GateCallsOnCompletion_Always(user_query, analysis) ==
    <<GateFallbackCall(user_query)>>

GateCallsOnCompletion(user_query, analysis) ==
    IF analysis.kind = "raise" THEN <<GateFallbackCall(user_query)>> ELSE <<>>

\* the calls issued as the LLM call of the awaited analyze_query ends in `call`
GateCallsOnLLMEnd(req, call) ==
    IF call.kind = "raise" THEN AnalyzeCallsOnException(req) ELSE <<>>

-----------------------------------------------------------------------------
(* Specification SpecGate: should_enable_web_grounding called once with any
   query, context and provider capability.  analyze_query is either the
   analyzer's method, which ends as its LLM call ends, or a replacement that
   raises (the client's tests patch it that way). *)

\* the analyzer's analyze_query has completed with `analysis`
GateAnalysisDone(analysis) ==
    /\ outcomes' = Append(outcomes, [request |-> request, analysis |-> analysis])
    /\ result' = GateResume(gate.user_query, analysis)
    /\ calls' = (calls \o GateCallsOnLLMEnd(request, llm')) \o GateCallsOnCompletion(gate.user_query, analysis)
    /\ pc' = "done"

\* should_enable_web_grounding(user_query, presentation_context) up to its
\* return or to the await of the LLM call inside analyze_query
ShouldEnableWebGrounding(user_query, presentation_context, enabled) ==
    /\ pc = "idle"
    /\ gate' = [enabled |-> enabled, user_query |-> user_query, presentation_context |-> presentation_context]
    /\ IF ~GateSupported(enabled)
       THEN /\ result' = Return(FALSE)
            /\ pc' = "done"
            /\ UNCHANGED <<request, llm, calls, inflight>>
       ELSE /\ request' = GateRequest(user_query, presentation_context)
            /\ calls' = calls \o <<AnalyzeQueryCall(request'), GenerateStructuredCall(request')>>
            /\ llm' = Pending
            /\ inflight' = inflight + 1
            /\ pc' = "awaiting"
            /\ UNCHANGED result
    /\ UNCHANGED <<response, kwargs, requests, idx, results, outcomes, http>>

\* the LLM call of the awaited analyze_query raises
GateLLMRaises ==
    /\ pc = "awaiting"
    /\ llm' = Raise("Exception")
    /\ inflight' = inflight - 1
    /\ GateAnalysisDone(AnalyzeResume(request, llm'))
    /\ UNCHANGED <<request, response, kwargs, requests, idx, results, gate, http>>

\* the LLM call of the awaited analyze_query returns a mapping
GateLLMReturns ==
    /\ pc = "awaiting"
    /\ \E resp \in BatchResponses : llm' = Return(resp)
    /\ inflight' = inflight - 1
    /\ GateAnalysisDone(AnalyzeResume(request, llm'))
    /\ UNCHANGED <<request, response, kwargs, requests, idx, results, gate, http>>

\* the provider supports web grounding and the awaited analyze_query raises
GateAnalyzerRaises(user_query, presentation_context) ==
    /\ pc = "idle"
    /\ gate' = [enabled |-> TRUE, user_query |-> user_query, presentation_context |-> presentation_context]
    /\ request' = GateRequest(user_query, presentation_context)
    /\ outcomes' = Append(outcomes, [request |-> request', analysis |-> Raise("Exception")])
    /\ result' = GateResume(user_query, Raise("Exception"))
    /\ calls' = (calls \o <<AnalyzeQueryCall(request')>>) \o GateCallsOnCompletion(user_query, Raise("Exception"))
    /\ pc' = "done"
    /\ UNCHANGED <<response, kwargs, llm, requests, idx, results, inflight, http>>

NextGate ==
    \/ \E q \in Queries, c \in Contexts, e \in BOOLEAN : ShouldEnableWebGrounding(q, c, e)
    \/ GateLLMRaises
    \/ GateLLMReturns
    \/ \E q \in Queries, c \in Contexts : GateAnalyzerRaises(q, c)

SpecGate == Init /\ [][NextGate]_vars

\* the analyzer was invoked and returned / raised
EngineReturned == outcomes # <<>> /\ outcomes[1].analysis.kind = "return"
EngineRaised == outcomes # <<>> /\ outcomes[1].analysis.kind = "raise"

\* C13: with the provider capability off, should_enable_web_grounding returns
\* false for every query and context and invokes neither the analyzer, nor the
\* LLM, nor any keyword fallback.
C13_CapabilityOffShortCircuits ==
    (pc = "done" /\ ~gate.enabled) =>
        /\ result = Return(FALSE)
        /\ calls = <<>>
        /\ outcomes = <<>>
        /\ llm = NoLLM
        /\ inflight = 0

\* capability off, for a query full of keywords and a given context
C13_Witness ==
    /\ pc = "done"
    /\ ~gate.enabled
    /\ gate.user_query = Chars("Latest news")
    /\ gate.presentation_context # None
    /\ _fallback_web_search_decision(gate.user_query)
    /\ result = Return(FALSE)

\* C14: with the capability on and the analyzer returning a result, the
\* analyzer is called exactly once, with a request carrying the given query and
\* context and sensitivity 'medium', and the gate returns exactly that result's
\* needs_web_search.
C14_GateReturnsEngineDecision ==
    (pc = "done" /\ gate.enabled /\ EngineReturned) =>
        /\ Len(CallsOf("analyze_query")) = 1
        /\ Len(outcomes) = 1
        /\ LET sent == CallsOf("analyze_query")[1].request
           IN  /\ sent.user_query = gate.user_query
               /\ sent.presentation_context = gate.presentation_context
               /\ sent.sensitivity = "medium"
               /\ sent = outcomes[1].request
        /\ result = Return(outcomes[1].analysis.value.needs_web_search)
        /\ CallsOf("_fallback_web_search_decision") = <<>>

\* the analyzer says search for a query without any keyword, in a context
C14_Witness ==
    /\ pc = "done"
    /\ gate.enabled
    /\ EngineReturned
    /\ gate.user_query = Chars("what")
    /\ gate.presentation_context # None
    /\ outcomes[1].analysis.value.needs_web_search
    /\ ~_fallback_web_search_decision(gate.user_query)
    /\ result = Return(TRUE)

\* the gate's three keyword tests, spelled out on the lower-cased query
GateMatched(text) ==
    LET lowered == Lower(text)
    IN  \/ KeywordHit(lowered, GateTemporalKeywords)
        \/ KeywordHit(lowered, GateNewsKeywords)
        \/ KeywordHit(lowered, GateStatsKeywords)

\* C15: with the capability on and the analyzer call raising,
\* should_enable_web_grounding does not raise: it returns the boolean of its
\* own keyword fallback, true if and only if the lower-cased query contains a
\* keyword of the gate's temporal, news or statistics lists.
C15_GateFallsBackOnEngineError ==
    (pc = "done" /\ gate.enabled /\ EngineRaised) =>
        /\ result.kind = "return"
        /\ result.value \in BOOLEAN
        /\ result.value = GateMatched(gate.user_query)
        /\ Len(CallsOf("_fallback_web_search_decision")) = 1

\* the analyzer raised for a capitalised Cyrillic query
C15_Witness ==
    /\ pc = "done"
    /\ gate.enabled
    /\ EngineRaised
    /\ gate.user_query = <<"U+0421", "U+0442", "U+0430", "U+0442", "U+0438", "U+0441", "U+0442", "U+0438", "U+043A", "U+0430">>
    /\ result = Return(TRUE)

\* C16: the gate's own fallback tests the same three keyword lists as the
\* analyzer's fallback rule, so for every query the gate fallback's boolean
\* equals the needs_web_search of the fallback rule result for that query.
C16_GateFallbackEqualsEngineFallback ==
    (pc = "done" /\ gate.enabled /\ EngineRaised) =>
        /\ result.kind = "return"
        /\ result.value = _fallback_analysis(request).value.needs_web_search

\* the provider supports web grounding and the LLM call inside analyze_query
\* has failed
EngineLLMFailed == pc = "done" /\ gate.enabled /\ llm.kind = "raise"

\* C26: with the capability flag on and the LLM call inside the analyzer
\* failing, should_enable_web_grounding returns the needs_web_search of the
\* analyzer's fallback result; analyze_query returns that result instead of
\* raising, so the gate's own keyword fallback is not executed.
C26_LLMFailureUsesEngineFallback ==
    EngineLLMFailed =>
        /\ EngineReturned
        /\ outcomes[1].analysis = _fallback_analysis(request)
        /\ result = Return(_fallback_analysis(request).value.needs_web_search)
        /\ CallsOf("_fallback_web_search_decision") = <<>>

\* the LLM call failed for a query with a temporal keyword: the gate says yes
C26_Witness ==
    /\ EngineLLMFailed
    /\ gate.user_query = Chars("Latest news")
    /\ result = Return(TRUE)
    /\ Len(CallsOf("generate_structured")) = 1

\* the request with its query in lower case
LowerCased(req) == [req EXCEPT !.user_query = Lower(@)]

\* C29: fallback matching is case-insensitive: the fallback rule's
\* needs_web_search, confidence and triggers are the same for a query and for
\* its lower-cased form, and so is the boolean of the gate's own fallback.
C29_FallbackIgnoresCase ==
    /\ EngineLLMFailed =>
          LET given == outcomes[1].analysis.value
              lowered == _fallback_analysis(LowerCased(request)).value
          IN  /\ given.needs_web_search = lowered.needs_web_search
              /\ given.confidence = lowered.confidence
              /\ given.triggers = lowered.triggers
    /\ (pc = "done" /\ EngineRaised) =>
          result = Return(_fallback_web_search_decision(Lower(gate.user_query)))

\* the fallback rule ran for a query that holds a keyword in upper case only
C29_Witness ==
    /\ EngineLLMFailed
    /\ gate.user_query = Chars("DATA")
    /\ Lower(gate.user_query) # gate.user_query
    /\ outcomes[1].analysis.value.needs_web_search
    /\ outcomes[1].analysis.value.triggers = <<"STATISTICS">>

-----------------------------------------------------------------------------
(* llm_analyzer.py: _create_system_prompt, _create_user_prompt and the message
   list of analyze_query.  A prompt is one str whose lines are separated by
   the newline character. *)

NL == "\n"

\* "\n".join(parts)
RECURSIVE JoinLines(_)
JoinLines(parts) ==
    IF Len(parts) = 0 THEN <<>>
    ELSE IF Len(parts) = 1 THEN parts[1]
    ELSE parts[1] \o <<NL>> \o JoinLines(Tail(parts))

\* str(n) for an int n >= 0, as an f-string formats len(...)
RECURSIVE IntToChars(_)
IntToChars(n) ==
    IF n < 10 THEN <<Chars("0123456789")[n + 1]>>
    ELSE IntToChars(n \div 10) \o <<Chars("0123456789")[(n % 10) + 1]>>

sensitivity_instructions ==
    [low |-> Chars("Be conservative - only recommend web search for clearly time-sensitive queries"),
     medium |-> Chars("Balance between accuracy and efficiency - recommend web search for queries that likely need current information"),
     high |-> Chars("Be liberal - recommend web search for most queries that could benefit from current information")]

language_instructions ==
    [en |-> Chars("Analyze English queries"),
     ru |-> Chars("Analyze Russian queries"),
     es |-> Chars("Analyze Spanish queries"),
     fr |-> Chars("Analyze French queries"),
     de |-> Chars("Analyze German queries")]

\* sensitivity_instructions.get(sensitivity, sensitivity_instructions["medium"])
SensitivityInstruction_DefaultHigh(sensitivity) ==
    IF sensitivity \in DOMAIN sensitivity_instructions
    THEN sensitivity_instructions[sensitivity]
    ELSE sensitivity_instructions["high"]

SensitivityInstruction(sensitivity) ==
    IF sensitivity \in DOMAIN sensitivity_instructions
    THEN sensitivity_instructions[sensitivity]
    ELSE sensitivity_instructions["medium"]

\* language_instructions.get(language, "Analyze queries in any language")
LanguageInstruction(language) ==
    IF language \in DOMAIN language_instructions
    THEN language_instructions[language]
    ELSE Chars("Analyze queries in any language")

SystemPromptIntro ==
    Chars("You are an expert AI assistant that determines whether a user query requires web search for accurate, up-to-date information.")

\* the fixed lines of the prompt after the two instructions
SystemPromptFactors ==
    << Chars("Consider these factors when determining if web search is needed:"),
       <<>>,
       Chars("TEMPORAL INDICATORS (High Priority):"),
       Chars("- Current year (2024, 2025)"),
       Chars("- Time-sensitive words: \"current\", \"latest\", \"recent\", \"today\", \"now\", \"up-to-date\""),
       Chars("- Trend analysis: \"trends\", \"changes\", \"developments\""),
       Chars("- News and events: \"news\", \"events\", \"announcements\""),
       <<>>,
       Chars("STATISTICS & DATA (High Priority):"),
       Chars("- Statistical queries: \"statistics\", \"data\", \"figures\", \"numbers\""),
       Chars("- Research requests: \"studies\", \"reports\", \"analysis\""),
       Chars("- Rankings and comparisons: \"top\", \"best\", \"worst\", \"rankings\""),
       Chars("- Market data: \"prices\", \"rates\", \"indexes\", \"performance\""),
       <<>>,
       Chars("CURRENT EVENTS (High Priority):"),
       Chars("- Political events: \"elections\", \"government\", \"policy\""),
       Chars("- Economic events: \"market\", \"economy\", \"crisis\", \"recession\""),
       Chars("- Social events: \"protests\", \"movements\", \"social issues\""),
       Chars("- Global events: \"war\", \"conflict\", \"disasters\", \"pandemic\""),
       <<>>,
       Chars("TECHNOLOGY & INNOVATION (Medium Priority):"),
       Chars("- Latest tech: \"AI\", \"blockchain\", \"quantum\", \"latest technology\""),
       Chars("- Startups and companies: \"startups\", \"unicorns\", \"IPO\""),
       Chars("- Research and development: \"breakthrough\", \"innovation\", \"discovery\""),
       <<>>,
       Chars("FINANCE & BUSINESS (Medium Priority):"),
       Chars("- Financial data: \"stocks\", \"bonds\", \"investments\", \"earnings\""),
       Chars("- Business news: \"mergers\", \"acquisitions\", \"partnerships\""),
       Chars("- Economic indicators: \"GDP\", \"inflation\", \"unemployment\""),
       <<>>,
       Chars("GENERAL KNOWLEDGE (Low Priority):"),
       Chars("- Historical facts that don't change"),
       Chars("- Basic definitions and concepts"),
       Chars("- Established scientific principles"),
       Chars("- General educational content"),
       <<>>,
       Chars("For each query, provide:"),
       Chars("1. A clear decision (needs_web_search: true/false)"),
       Chars("2. Confidence level (0.0-1.0)"),
       Chars("3. Specific triggers that influenced your decision"),
       Chars("4. Detailed reasoning"),
       Chars("5. Suggested search queries (if web search is needed)"),
       Chars("6. Alternative approach (if web search is not needed)"),
       <<>>,
       Chars("Be precise and explain your reasoning clearly.") >>

SystemPromptTail == JoinLines(SystemPromptFactors)

_create_system_prompt(sensitivity, language) ==
    JoinLines(<<SystemPromptIntro, <<>>, LanguageInstruction(language), <<>>,
                SensitivityInstruction(sensitivity), <<>>, SystemPromptTail>>)

\* truth value of dict.get(key): a missing key, '' and [] are falsy
Truthy(entry) == entry # None /\ entry[1] # <<>>

\* `if request.presentation_context:`: None and the empty dict are falsy
HasContext(presentation_context) ==
    /\ presentation_context # None
    /\ \E key \in DOMAIN presentation_context[1] : presentation_context[1][key] # None

\* context_info: one entry per truthy field, in the order topic,
\* previous_slides, domain
ContextInfo(context) ==
    (IF Truthy(context.topic)
     THEN <<Chars("Presentation topic: ") \o context.topic[1]>> ELSE <<>>)
    \o (IF Truthy(context.previous_slides)
        THEN <<Chars("Number of previous slides: ") \o IntToChars(Len(context.previous_slides[1]))>> ELSE <<>>)
    \o (IF Truthy(context.domain)
        THEN <<Chars("Domain: ") \o context.domain[1]>> ELSE <<>>)

\* `if context_info:` the header and one "- " line per entry
ContextLines_HeaderAlways(context_info) ==
    <<Chars("Context:")>> \o [i \in DOMAIN context_info |-> Chars("- ") \o context_info[i]]

ContextLines(context_info) ==
    IF context_info # <<>>
    THEN <<Chars("Context:")>> \o [i \in DOMAIN context_info |-> Chars("- ") \o context_info[i]]
    ELSE <<>>

_create_user_prompt(req) ==
    LET prompt_parts ==
            << (Chars("Query to analyze: \"") \o req.user_query) \o Chars("\""),
               Chars("Language: ") \o Chars(req.language),
               Chars("Sensitivity level: ") \o Chars(req.sensitivity) >>
    IN  JoinLines(prompt_parts \o
                  (IF HasContext(req.presentation_context)
                   THEN ContextLines(ContextInfo(req.presentation_context[1]))
                   ELSE <<>>))

LLMSystemMessage(content) == [role |-> "system", content |-> content]
LLMUserMessage(content) == [role |-> "user", content |-> content]

\* the message list analyze_query hands to generate_structured
AnalyzeMessages(req) ==
    <<LLMSystemMessage(_create_system_prompt(req.sensitivity, req.language)),
      LLMUserMessage(_create_user_prompt(req))>>

-----------------------------------------------------------------------------
(* Specification SpecPrompt: the two prompts built for any request, with
   sensitivities and languages inside and outside the lookups and every
   combination of present, empty and missing context fields *)

PromptSensitivities == {"low", "medium", "high", "custom", ""}
PromptLanguages == {"en", "ru", "es", "fr", "de", "it", ""}
PromptQueries == {Chars("test query"), Chars("Latest AI trends in 2024")}

\* presentation_context: None, or a dict that may hold topic, previous_slides,
\* domain and a key the prompt does not read
PromptContexts ==
    {None} \cup
    { Some([topic |-> t, previous_slides |-> p, domain |-> d, audience |-> a]) :
        t \in {None, Some(Chars("")), Some(Chars("Technology"))},
        p \in {None, Some(<<>>), Some(<<Chars("Intro")>>), Some([i \in 1..10 |-> Chars("Slide")])},
        d \in {None, Some(Chars("")), Some(Chars("tech"))},
        a \in {None, Some(Chars("students"))} }

PromptRequests ==
    {QueryAnalysisRequest(q, c, s, l) :
        q \in PromptQueries, c \in PromptContexts, s \in PromptSensitivities, l \in PromptLanguages}

InitPrompt ==
    /\ pc = "start"
    /\ request \in PromptRequests
    /\ result = NoResult
    /\ response = NoResponse
    /\ kwargs = NoKwargs
    /\ llm = NoLLM
    /\ requests = <<>>
    /\ idx = 0
    /\ results = <<>>
    /\ outcomes = <<>>
    /\ calls = <<>>
    /\ inflight = 0
    /\ gate = NoGate
    /\ http = NoResult

\* analyze_query up to the message list
CreateMessages ==
    /\ pc = "start"
    /\ result' = Return(AnalyzeMessages(request))
    /\ pc' = "done"
    /\ UNCHANGED <<request, response, kwargs, llm, requests, idx, results, outcomes, calls, inflight, gate, http>>

NextPrompt == CreateMessages

SpecPrompt == InitPrompt /\ [][NextPrompt]_vars

\* C22: any string is accepted as sensitivity, and for every sensitivity
\* outside {low, medium, high} the system prompt is identical to the one built
\* for 'medium' with the same language; every language outside the lookup
\* yields the generic 'any language' framing.
C22_UnknownSensitivityIsMedium ==
    pc = "done" =>
        /\ result.kind = "return"
        /\ result.value[1].role = "system"
        /\ LET prompt == result.value[1].content
               as_medium == _create_system_prompt("medium", request.language)
               generic == JoinLines(<<SystemPromptIntro, <<>>, Chars("Analyze queries in any language"), <<>>>>)
           IN  /\ request.sensitivity \notin {"low", "medium", "high"} => prompt = as_medium
               /\ request.sensitivity \in {"low", "high"} => prompt # as_medium
               /\ request.language \notin {"en", "ru", "es", "fr", "de"} => StartsWith(prompt, generic)
               /\ request.language \in {"en", "ru", "es", "fr", "de"} => ~StartsWith(prompt, generic)

\* a sensitivity and a language outside the lookups
C22_Witness ==
    /\ pc = "done"
    /\ request.sensitivity = "custom"
    /\ request.language = "it"
    /\ result.kind = "return"
    /\ result.value[1].content = _create_system_prompt("medium", "")
    /\ result.value[1].content # _create_system_prompt("high", "it")
    /\ result.value[1].content # _create_system_prompt("medium", "en")

\* str.split("\n")
RECURSIVE SplitLines(_)
SplitLines(s) ==
    IF \A i \in DOMAIN s : s[i] # NL THEN <<s>>
    ELSE LET i == CHOOSE i \in DOMAIN s : s[i] = NL /\ \A j \in 1..(i - 1) : s[j] # NL
         IN  <<SubSeq(s, 1, i - 1)>> \o SplitLines(SubSeq(s, i + 1, Len(s)))

\* the context fields that are present and non-empty
PresentFields(presentation_context) ==
    IF presentation_context = None THEN {}
    ELSE {key \in {"topic", "previous_slides", "domain"} :
            /\ presentation_context[1][key] # None
            /\ presentation_context[1][key][1] # <<>>}

\* C23: the user prompt starts with the query line, the language line and the
\* sensitivity line in that order; the 'Context:' header and the context lines
\* appear if and only if at least one of topic, previous_slides, domain is
\* present and non-empty, one line per such field, and are left out otherwise
\* (context absent, empty, or holding only other keys).
C23_UserPromptLayout ==
    pc = "done" =>
        /\ result.kind = "return"
        /\ result.value[2].role = "user"
        /\ LET lines == SplitLines(result.value[2].content)
               present == PresentFields(request.presentation_context)
           IN  /\ Len(lines) >= 3
               /\ lines[1] = (Chars("Query to analyze: \"") \o request.user_query) \o Chars("\"")
               /\ lines[2] = Chars("Language: ") \o Chars(request.language)
               /\ lines[3] = Chars("Sensitivity level: ") \o Chars(request.sensitivity)
               /\ (present = {}) <=> (Len(lines) = 3)
               /\ (present = {}) <=> (\A i \in DOMAIN lines : lines[i] # Chars("Context:"))
               /\ present # {} =>
                     /\ lines[4] = Chars("Context:")
                     /\ Len(lines) = 4 + Cardinality(present)
                     /\ \A i \in 5..Len(lines) : StartsWith(lines[i], Chars("- "))
                     /\ ("topic" \in present) <=>
                            (lines[5] = Chars("- Presentation topic: Technology"))
                     /\ ("previous_slides" \in present) <=>
                            (\E i \in 5..Len(lines) : StartsWith(lines[i], Chars("- Number of previous slides: ")))
                     /\ ("domain" \in present) <=>
                            (lines[Len(lines)] = Chars("- Domain: tech"))

\* an empty topic, ten previous slides, a domain and a key the prompt ignores
C23_Witness ==
    /\ pc = "done"
    /\ request.presentation_context # None
    /\ request.presentation_context[1].topic = Some(Chars(""))
    /\ request.presentation_context[1].audience # None
    /\ request.sensitivity = "custom"
    /\ result.kind = "return"
    /\ SplitLines(result.value[2].content) =
          << Chars("Query to analyze: \"test query\""),
             Chars("Language: ru"),
             Chars("Sensitivity level: custom"),
             Chars("Context:"),
             Chars("- Number of previous slides: 10"),
             Chars("- Domain: tech") >>

-----------------------------------------------------------------------------
(* EnhancedLLMClient: the four *_with_smart_web_search wrappers.  A keyword
   argument is absent (None) or present (Some(value)); the value of `tools`
   is Python's None (None) or a list (Some(list)). *)

\* the class imported from models.llm_tools
SearchWebTool == "SearchWebTool"

Wrappers ==
    {"generate_with_smart_web_search", "stream_with_smart_web_search",
     "generate_structured_with_smart_web_search", "stream_structured_with_smart_web_search"}

\* the wrappers that take response_format
StructuredWrappers ==
    {"generate_structured_with_smart_web_search", "stream_structured_with_smart_web_search"}

\* the method of the client itself each wrapper ends in
Underlying(wrapper) ==
    CASE wrapper = "generate_with_smart_web_search" -> "self.generate"
      [] wrapper = "stream_with_smart_web_search" -> "self.stream"
      [] wrapper = "generate_structured_with_smart_web_search" -> "self.generate_structured"
      [] wrapper = "stream_structured_with_smart_web_search" -> "self.stream_structured"

UnderlyingOps == {Underlying(w) : w \in Wrappers}

\* `if user_query:`: None and '' are falsy
WrapperConsults_NotNone(user_query) == user_query # None

WrapperConsults(user_query) == user_query # None /\ user_query[1] # <<>>

\* tools = kwargs.get('tools', [])
\* if needs_web_search: tools = tools + [SearchWebTool] if tools else [SearchWebTool]
WrapperTools_Prepend(kwargs_, needs_web_search) ==
    LET tools == DictGet(kwargs_, "tools", Some(<<>>))
    IN  IF needs_web_search
        THEN IF Truthy(tools) THEN Some(<<SearchWebTool>> \o tools[1]) ELSE Some(<<SearchWebTool>>)
        ELSE tools

WrapperTools(kwargs_, needs_web_search) ==
    LET tools == DictGet(kwargs_, "tools", Some(<<>>))
    IN  IF needs_web_search
        THEN IF Truthy(tools) THEN Some(tools[1] \o <<SearchWebTool>>) ELSE Some(<<SearchWebTool>>)
        ELSE tools

\* the list object the caller passed as tools, after the wrapper has built its
\* own: `tools + [SearchWebTool]` makes a new list and leaves its operand alone
CallerToolsAfter(kwargs_, needs_web_search) == kwargs_.tools

\* kwargs['tools'] = tools, on the wrapper's own **kwargs dict
WrapperKwargs(kwargs_, needs_web_search) ==
    [kwargs_ EXCEPT !.tools = Some(WrapperTools(kwargs_, needs_web_search))]

\* the call of the underlying method
GenerationCall(inv, needs_web_search) ==
    [op |-> Underlying(inv.wrapper),
     model |-> inv.model,
     messages |-> inv.messages,
     response_format |-> inv.response_format,
     kwargs |-> WrapperKwargs(inv.kwargs, needs_web_search)]

\* await self.should_enable_web_grounding(user_query, presentation_context)
GateConsultCall(user_query, presentation_context) ==
    [op |-> "should_enable_web_grounding", user_query |-> user_query,
     presentation_context |-> presentation_context]

-----------------------------------------------------------------------------
(* Inputs: calls of the wrappers *)

WrapperModels == {"test-model", "other-model"}

sample_messages == <<[role |-> "user", content |-> Chars("Test message")]>>

\* user_query: not given (None), '' or a query
WrapperQueries == {None, Some(Chars("")), Some(Chars("what")), Some(Chars("Latest news"))}

ToolNames == {"ToolA", "ToolB"}

\* tools: not given, None, or a list of up to MaxTools tools
WrapperToolsGiven ==
    {None, Some(None)} \cup {Some(Some(l)) : l \in SeqUpTo(ToolNames, MaxTools)}

\* the other keyword arguments: one of them, given or not
WrapperKwargsGiven == [tools : WrapperToolsGiven, max_tokens : Optional({100})]

WrapperResponseFormat(wrapper) ==
    IF wrapper \in StructuredWrappers THEN Some([type |-> "object"]) ELSE None

\* a call under way: its arguments, the caller's tools list as it now is, the
\* wrapper's position and what it returned
WrapperInvocation(wrapper, model, user_query, presentation_context, kwargs_) ==
    [wrapper |-> wrapper, model |-> model, messages |-> sample_messages,
     response_format |-> WrapperResponseFormat(wrapper),
     user_query |-> user_query, presentation_context |-> presentation_context,
     kwargs |-> kwargs_, caller_tools |-> kwargs_.tools,
     at |-> "called", returned |-> NoResult]

-----------------------------------------------------------------------------
(* Specification SpecWrapper: one call of one wrapper.  The gate it awaits is
   should_enable_web_grounding as in SpecGate; the underlying method returns
   or raises. *)

\* the wrapper up to the await of the gate or, without a query, of the
\* underlying method
WrapperCall ==
    /\ pc = "idle"
    /\ kwargs = NoKwargs
    /\ \E w \in Wrappers, m \in WrapperModels, q \in WrapperQueries, c \in Contexts, k \in WrapperKwargsGiven :
          LET inv == WrapperInvocation(w, m, q, c, k)
          IN  IF WrapperConsults(q)
              THEN /\ kwargs' = [inv EXCEPT !.at = "gate"]
                   /\ calls' = Append(calls, GateConsultCall(q[1], c))
              ELSE /\ kwargs' = [inv EXCEPT !.at = "generating",
                                            !.caller_tools = CallerToolsAfter(k, FALSE)]
                   /\ calls' = Append(calls, GenerationCall(inv, FALSE))
    /\ UNCHANGED <<pc, request, response, llm, result, requests, idx, results, outcomes, inflight, gate, http>>

\* the awaited gate starts
WrapperGate(enabled) ==
    /\ kwargs # NoKwargs
    /\ kwargs.at = "gate"
    /\ ShouldEnableWebGrounding(kwargs.user_query[1], kwargs.presentation_context, enabled)

\* the awaited gate starts and its analyze_query raises
WrapperGateAnalyzerRaises ==
    /\ kwargs # NoKwargs
    /\ kwargs.at = "gate"
    /\ GateAnalyzerRaises(kwargs.user_query[1], kwargs.presentation_context)

\* the gate has returned: the tools are set and the underlying method is called
WrapperResume ==
    /\ kwargs # NoKwargs
    /\ kwargs.at = "gate"
    /\ pc = "done"
    /\ IF result.kind = "raise"
       THEN /\ kwargs' = [kwargs EXCEPT !.at = "returned", !.returned = result]
            /\ UNCHANGED calls
       ELSE /\ kwargs' = [kwargs EXCEPT !.at = "generating",
                                        !.caller_tools = CallerToolsAfter(kwargs.kwargs, result.value)]
            /\ calls' = Append(calls, GenerationCall(kwargs, result.value))
    /\ UNCHANGED <<pc, request, response, llm, result, requests, idx, results, outcomes, inflight, gate, http>>

\* the underlying method returns: the wrapper hands its result on
WrapperGenerationReturns ==
    /\ kwargs # NoKwargs
    /\ kwargs.at = "generating"
    /\ kwargs' = [kwargs EXCEPT !.at = "returned", !.returned = Return(Chars("Generated content"))]
    /\ UNCHANGED <<pc, request, response, llm, result, requests, idx, results, outcomes, calls, inflight, gate, http>>

\* the underlying method raises: nothing catches it
WrapperGenerationRaises ==
    /\ kwargs # NoKwargs
    /\ kwargs.at = "generating"
    /\ kwargs' = [kwargs EXCEPT !.at = "returned", !.returned = Raise("Exception")]
    /\ UNCHANGED <<pc, request, response, llm, result, requests, idx, results, outcomes, calls, inflight, gate, http>>

NextWrapper ==
    \/ WrapperCall
    \/ \E e \in BOOLEAN : WrapperGate(e)
    \/ WrapperGateAnalyzerRaises
    \/ GateLLMRaises
    \/ GateLLMReturns
    \/ WrapperResume
    \/ WrapperGenerationReturns
    \/ WrapperGenerationRaises

SpecWrapper == Init /\ [][NextWrapper]_vars

\* a wrapper has been called
WrapperStarted == kwargs # NoKwargs

\* the calls of the underlying methods so far
GenerationCalls == SelectSeq(calls, LAMBDA c : c.op \in UnderlyingOps)

\* the gate was consulted and has returned true
GateSaidYes == CallsOf("should_enable_web_grounding") # <<>> /\ pc = "done" /\ result = Return(TRUE)

\* C25: in each wrapper the gate is consulted exactly once, before the
\* underlying generation call, when a non-empty user_query is given, and not
\* at all when user_query is absent or empty; the search tool is among the
\* tools of the generation call if and only if the gate returned true; the
\* generation call is made exactly once in every case.
C25_GateOnceThenGenerate ==
    WrapperStarted =>
        LET consults == CallsOf("should_enable_web_grounding")
            given == kwargs.user_query # None /\ kwargs.user_query[1] # <<>>
        IN  /\ Len(GenerationCalls) <= 1
            /\ kwargs.at \in {"generating", "returned"} => Len(GenerationCalls) = 1
            /\ kwargs.at = "gate" => GenerationCalls = <<>>
            /\ IF given
               THEN /\ consults = <<GateConsultCall(kwargs.user_query[1], kwargs.presentation_context)>>
                    /\ calls[1] = consults[1]
                    /\ GenerationCalls # <<>> => (pc = "done" /\ calls[Len(calls)] = GenerationCalls[1])
               ELSE /\ consults = <<>>
                    /\ calls = GenerationCalls
                    /\ gate = NoGate
            /\ GenerationCalls # <<>> =>
                  LET passed == GenerationCalls[1].kwargs.tools
                  IN  /\ passed # None
                      /\ GateSaidYes <=>
                            (passed[1] # None /\ \E i \in DOMAIN passed[1][1] : passed[1][1][i] = SearchWebTool)

\* the structured wrapper was called with a query, the gate said yes and the
\* generation call went out with the search tool
C25_Witness ==
    /\ WrapperStarted
    /\ kwargs.wrapper = "generate_structured_with_smart_web_search"
    /\ kwargs.user_query = Some(Chars("Latest news"))
    /\ kwargs.at = "returned"
    /\ GateSaidYes
    /\ Len(calls) > 2
    /\ GenerationCalls[1].kwargs.tools = Some(Some(<<SearchWebTool>>))

\* C30: each wrapper passes the caller's tools on in their order, with the
\* search tool appended once at the end when the gate returned true, and as
\* supplied (empty when none were supplied) when it did not; it never mutates
\* the caller's tools list; the other keyword arguments, the model, the
\* messages and the response format are forwarded unchanged.
C30_ToolsAndArgumentsForwarded ==
    WrapperStarted =>
        /\ kwargs.caller_tools = kwargs.kwargs.tools
        /\ GenerationCalls # <<>> =>
              LET call == GenerationCalls[1]
                  supplied == kwargs.kwargs.tools
                  listed == IF supplied = None \/ supplied[1] = None THEN <<>> ELSE supplied[1][1]
              IN  /\ call.op = Underlying(kwargs.wrapper)
                  /\ call.model = kwargs.model
                  /\ call.messages = kwargs.messages
                  /\ call.response_format = kwargs.response_format
                  /\ DOMAIN call.kwargs = DOMAIN kwargs.kwargs
                  /\ \A k \in DOMAIN kwargs.kwargs \ {"tools"} : call.kwargs[k] = kwargs.kwargs[k]
                  /\ IF GateSaidYes
                     THEN call.kwargs.tools = Some(Some(listed \o <<SearchWebTool>>))
                     ELSE call.kwargs.tools = (IF supplied = None THEN Some(Some(<<>>)) ELSE supplied)

\* two tools were supplied, the gate said yes: the call holds them in their
\* order and then the search tool, beside the other keyword argument
C30_Witness ==
    /\ WrapperStarted
    /\ kwargs.kwargs.tools = Some(Some(<<"ToolB", "ToolA">>))
    /\ kwargs.kwargs.max_tokens = Some(100)
    /\ GateSaidYes
    /\ GenerationCalls # <<>>
    /\ GenerationCalls[1].kwargs.tools = Some(Some(<<"ToolB", "ToolA", SearchWebTool>>))
    /\ GenerationCalls[1].kwargs.max_tokens = Some(100)
    /\ kwargs.caller_tools = Some(Some(<<"ToolB", "ToolA">>))

====
